---- MODULE Spec2Model ----
(***************************************************************************)
(* Wallet-signature login backend (markilott/login-metamask-api-gateway).  *)
(*                                                                         *)
(* The state is the DynamoDB user table, the clock, and the position of    *)
(* each concurrently running Lambda invocation.  Every store call of a     *)
(* handler (query on the wallet index, update, put) is one atomic step;    *)
(* the synchronous code between two store calls belongs to the step of     *)
(* the call before it.                                                     *)
(*                                                                         *)
(* Idealisations, stated once:                                             *)
(*  - crypto.randomBytes(16) never returns the same nonce twice (nonceCtr  *)
(*    numbers the nonces in order of creation);                            *)
(*  - a personal-message signature is the pair (signer, message); recovery *)
(*    over another message yields an address that is no wallet of the      *)
(*    model;                                                               *)
(*  - queries on the wallet index see the latest write.                    *)
(***************************************************************************)
EXTENDS Integers, Sequences, FiniteSets, TLC

\* ------------------------------------------------------------------ bounds
MaxRequests == 2        \* requests started in one behaviour
MaxNonce    == 4        \* nonces created in one behaviour
MaxTime     == 1        \* clock range 0..MaxTime, one tick is one day
NonceBytes  == 1        \* bytes of a nonce (the code draws 16)

Procs   == {1, 2}                   \* concurrently running invocations
Addrs   == {"0xa", "0xb"}           \* wallet addresses as recovery returns them
WalletIds == {"0xa", "0xA", "0xb"}  \* spellings of the wallet ids
UserIds == {"U1", "U2"}             \* values createUserId can return

\* --------------------------------------------------------- program constants
userExpiry     == 2     \* Number(process.env.EXPIRE_USERS_IN_DAYS) || 36500

\* an unverified record kept as long as a verified one
UnverifiedDaysLong == userExpiry

UnverifiedDays == 1     \* moment().add(1, 'd')

authTime    == 1        \* Number(process.env.AUTH_TOKEN_TIME), in ticks
refreshTime == 2        \* Number(process.env.REFRESH_TOKEN_TIME), in ticks

NoWallet == ""          \* attribute WalletId absent from an item
NoTime   == -1          \* a time attribute absent from an item
NoRequestId == "none"   \* a response without the field requestId

\* What is fixed for a behaviour: the deployed prefixes (config authOptions),
\* distinct or equal, the wallet ids its callers present (here the
\* lower-case spelling of one wallet, whose requests race with each other),
\* the request ids API Gateway hands out ($context.requestId), the time and
\* the number of requests the behaviour is followed for, and the secret of
\* the address validation ("skip": PROJECT_ID is 'SKIP_VALIDATION', as the
\* stack creates it; "infura": a project id; "absent": no secret), and the
\* statuses of the errors the user table fails a login's calls with (none:
\* the table answers every call).
Envs ==
    { [LOGIN_PREFIX |-> <<"L">>, SIGN_PREFIX |-> <<"S">>, walletIds |-> {"0xa"},
       requestIds |-> {"r1"}, maxTime |-> MaxTime, requests |-> MaxRequests,
       secret |-> "skip",
       store |-> {}],
      [LOGIN_PREFIX |-> <<"L">>, SIGN_PREFIX |-> <<"L">>, walletIds |-> {"0xa"},
       requestIds |-> {"r1"}, maxTime |-> MaxTime, requests |-> MaxRequests,
       secret |-> "skip",
       store |-> {}] }

VARIABLES
    env,        \* process.env of the Lambdas (LOGIN_PREFIX, SIGN_PREFIX) and
                \* the wallet ids the callers present
    table,      \* user table: UserId -> item, domain = the keys present
    now,        \* current time in days
    nonceCtr,   \* nonces created so far
    started,    \* requests started so far
    pc,         \* pc[p]: where invocation p is
    loc,        \* loc[p]: the local variables of invocation p
    resp,       \* the response returned last
    loginOk,    \* history: the logins that returned tokens, each with the
                \* wallet, the nonce it proved and n, its rank among the
                \* logins that proved this nonce of this wallet
    verifyOk,   \* history: the verify checks of createUser that passed, each
                \* with the wallet and the nonce of the record it read and the
                \* signature it accepted
    issued,     \* the tokens signed so far (login, refresh-token)
    refreshed   \* history: the refreshes that returned tokens, each with the
                \* token it was given, the time of the call, the exp of the
                \* refresh token it returned and n, its rank among the
                \* refreshes given this token
VARIABLE
    loggedOut   \* history: the tokens of the cookies of the logouts that
                \* succeeded
VARIABLE
    decided     \* history: the decisions of the authorizer, in order, on
                \* tokens inside their validity window with the key at hand

VARIABLES
    pubKey,     \* let pubKey of jwtUtils.js in one container: '' or the PEM
    fetched     \* history: the calls of kms.getPublicKey made by the container

vars == <<env, table, now, nonceCtr, started, pc, loc, resp, loginOk, verifyOk,
          issued, refreshed, loggedOut, decided, pubKey, fetched>>

\* ------------------------------------------------------------ pure helpers
HexDigits == <<"0", "1", "2", "3", "4", "5", "6", "7",
               "8", "9", "a", "b", "c", "d", "e", "f">>

RECURSIVE HexOf(_, _)
\* buffer.toString('hex') of an n-digit value, most significant digit first
HexOf(val, n) ==
    IF n = 0 THEN <<>>
    ELSE Append(HexOf(val \div 16, n - 1), HexDigits[(val % 16) + 1])

\* createNonce(): the k-th nonce drawn, as the hex string of NonceBytes bytes
createNonce(k) == HexOf(k, 2 * NonceBytes)

toLowerCase(w) == IF w = "0xA" THEN "0xa" ELSE w

\* `${prefix}${nonce}`
Message(prefix, nonce) == prefix \o nonce

EmptySig == [signer |-> "", msg |-> <<>>]       \* signature = ''
OtherAddr == "0x?"                              \* an address of no wallet

\* recoverPersonalSignature({ data, signature })
recoverPersonalSignature(message, signature) ==
    IF signature.msg = message THEN signature.signer ELSE OtherAddr

\* A string that is no signature (not the 65 bytes r, s, v): recovery throws
\* on it, and isValidEthSignature passes the error on from its catch block
Malformed == [signer |-> "", msg |-> <<"?">>]
isValidEthSignatureThrows(signature) == signature = Malformed

\* a check that compares the signer only, whatever message was signed
isValidEthSignatureAnyMessage(walletId, message, signature) ==
    signature.signer = walletId

\* isValidEthSignature({ walletId, message, signature })
isValidEthSignature(walletId, message, signature) ==
    recoverPersonalSignature(message, signature) = walletId

\* ethersSetup(): getSecretByArn throws when there is no secret to get, and
\* the error passes through isValidEthAddress to the handler
ethersSetupThrows == env.secret = "absent"

\* skipValidation = (projectId === 'SKIP_VALIDATION')
skipValidation == env.secret = "skip"

\* ethers.utils.isAddress(walletId): every spelling of a wallet id of the
\* model is a well-formed address, IllFormed is none
IllFormed == "0xz"
isAddress(walletId) == walletId \in WalletIds

\* isValidEthAddress(walletId), when ethersSetup has returned
isValidEthAddress(walletId) == skipValidation \/ isAddress(walletId)

\* The signatures a caller can present: the signature of a wallet it asks for
\* over any message get-nonce can have shown so far, and the signature of
\* another wallet over the newest of these messages.
Signatures ==
    { [signer |-> a, msg |-> Message(P, createNonce(k))] :
        a \in {toLowerCase(w) : w \in env.walletIds},
        P \in {env.LOGIN_PREFIX, env.SIGN_PREFIX}, k \in 1..nonceCtr }
    \cup
    { [signer |-> a, msg |-> Message(P, createNonce(nonceCtr))] :
        a \in Addrs, P \in {env.LOGIN_PREFIX, env.SIGN_PREFIX} }

\* History: what a presented signature is for the wallet and the nonce of the
\* record the request read
SigClass(walletId, nonce, signature) ==
    IF signature.signer # toLowerCase(walletId) THEN "other"
    ELSE IF signature.msg = env.LOGIN_PREFIX \o nonce THEN "login"
    ELSE IF signature.msg = env.SIGN_PREFIX \o nonce THEN "sign"
    ELSE "stale"

\* ----------------------------------------------------------------- tokens
\* A token is a string: text is "jwt" for a signed JWT, whose payload and
\* signature follow, and the string itself for anything else.
Payload0 == [sub |-> "", admin |-> FALSE, refresh |-> FALSE,
             iat |-> NoTime, exp |-> NoTime]
TextToken(text) ==
    [text |-> text, payload |-> Payload0,
     signature |-> [key |-> "", msg |-> Payload0]]
NoToken == TextToken("")                \* no token at all
Garbage == TextToken("garbage")         \* a string that is no JWT

\* a timestamp that is the lifetime alone, not counted from the current time
expTimeFixed(mins, t) == mins

\* expTime(mins): Number(moment().add(mins, 'm').format('X')), read at time t
expTime(mins, t) == t + mins

\* signMsg(msg): the KMS signature of the service key over msg
signMsg(msg) == [key |-> "kms", msg |-> msg]

\* createJwt({ userId, isAdmin, isRefresh }) at time t
createJwt(userId, isAdmin, isRefresh, t) ==
    LET payload == [sub |-> userId, admin |-> isAdmin, refresh |-> isRefresh,
                    iat |-> t,
                    exp |-> IF isRefresh THEN expTime(refreshTime, t)
                                         ELSE expTime(authTime, t)]
    IN [text |-> "jwt", payload |-> payload, signature |-> signMsg(payload)]

createRefreshToken(userId, t) == createJwt(userId, FALSE, TRUE, t)
\* an access token that carries the admin claim
createAuthTokenAdmin(userId, t) == createJwt(userId, TRUE, FALSE, t)

\* createAuthToken({ userId }): the callers give no isAdmin, which is then false
createAuthToken(userId, t) == createJwt(userId, FALSE, FALSE, t)

\* A cookie header: name = "" is the empty string, params.cookie = ''
NoCookie == [name |-> "", value |-> NoToken, maxAge |-> 0]

\* createRefreshCookie({ userId }): cookie.serialize('token', refreshToken, ..)
createRefreshCookie(userId, t) ==
    [name |-> "token", value |-> createRefreshToken(userId, t),
     maxAge |-> refreshTime * 60]

\* a logout cookie with the lifetime of a refresh cookie
createLogoutCookieLive ==
    [name |-> "token", value |-> TextToken("logout"),
     maxAge |-> refreshTime * 60]

\* createLogoutCookie(): cookie.serialize('token', 'logout', { maxAge: 0 })
createLogoutCookie ==
    [name |-> "token", value |-> TextToken("logout"), maxAge |-> 0]

\* What a failing call of an AWS service throws: an error that carries the
\* HTTP status of the service's answer, or none (0) when there was no answer
SdkStatus == {0, 400, 503}

\* const { statusCode = 500 } = err
StatusOf(statusCode) == IF statusCode = 0 THEN 500 ELSE statusCode

\* a verification that does not look at exp
verifyJwtNoExp(token, t, key) ==
    IF key # 200 THEN [ok |-> FALSE, statusCode |-> key, err |-> "KeyError"]
    ELSE IF token.text # "jwt"
         \/ token.signature # signMsg(token.payload)
    THEN [ok |-> FALSE, statusCode |-> 400, err |-> "InvalidToken"]
    ELSE [ok |-> TRUE, statusCode |-> 200, err |-> "", data |-> token.payload]

\* verifyJwt({ token }) at time t; key is 200 when the public key is at hand
\* and else the status of the error of kms.getPublicKey.  jwt.verify checks
\* the form, then the signature, then exp (expired from exp on).
verifyJwt(token, t, key) ==
    IF key # 200 THEN [ok |-> FALSE, statusCode |-> key, err |-> "KeyError"]
    ELSE IF token.text # "jwt"
         \/ token.signature # signMsg(token.payload)
    THEN [ok |-> FALSE, statusCode |-> 400, err |-> "InvalidToken"]
    ELSE IF t >= token.payload.exp
    THEN [ok |-> FALSE, statusCode |-> 400, err |-> "TokenExpired"]
    ELSE [ok |-> TRUE, statusCode |-> 200, err |-> "", data |-> token.payload]

\* a validation that accepts either kind of token
validateAuthTokenAnyKind(token, t, key) == verifyJwt(token, t, key)

\* validateAuthToken({ token })
validateAuthToken(token, t, key) ==
    LET r == verifyJwt(token, t, key) IN
    IF r.ok /\ r.data.refresh
    THEN [ok |-> FALSE, statusCode |-> 400, err |-> "InvalidAuthToken"]
    ELSE r

\* a validation that takes the payload of the cookie's token without validating
validateRefreshCookieUnchecked(cookieStr, t, key) ==
    [ok |-> TRUE, statusCode |-> 200, err |-> "", data |-> cookieStr.value.payload]

\* a validation that consults a list of the tokens that were logged out
validateRefreshCookieRevoking(cookieStr, t, key) ==
    LET r == verifyJwt(cookieStr.value, t, key) IN
    IF cookieStr.name # "token" \/ cookieStr.value = NoToken
    THEN [ok |-> FALSE, statusCode |-> 400, err |-> "NotOurCookie"]
    ELSE IF cookieStr.value \in loggedOut
    THEN [ok |-> FALSE, statusCode |-> 400, err |-> "Revoked"]
    ELSE IF r.ok /\ ~r.data.refresh
    THEN [ok |-> FALSE, statusCode |-> 400, err |-> "InvalidRefreshToken"]
    ELSE r

\* a validation that looks at the refresh claim before it verifies the token
validateRefreshCookieKindFirst(cookieStr, t, key) ==
    LET r == verifyJwt(cookieStr.value, t, key) IN
    IF cookieStr.name # "token" \/ cookieStr.value = NoToken
    THEN [ok |-> FALSE, statusCode |-> 400, err |-> "NotOurCookie"]
    ELSE IF cookieStr.value.text = "jwt" /\ ~cookieStr.value.payload.refresh
    THEN [ok |-> FALSE, statusCode |-> 400, err |-> "InvalidRefreshToken"]
    ELSE r

\* a validation that also asks the user table for the subject of the token
validateRefreshCookieStored(cookieStr, t, key) ==
    LET r == verifyJwt(cookieStr.value, t, key) IN
    IF cookieStr.name # "token" \/ cookieStr.value = NoToken
    THEN [ok |-> FALSE, statusCode |-> 400, err |-> "NotOurCookie"]
    ELSE IF r.ok /\ ~r.data.refresh
    THEN [ok |-> FALSE, statusCode |-> 400, err |-> "InvalidRefreshToken"]
    ELSE IF r.ok /\ r.data.sub \notin DOMAIN table
    THEN [ok |-> FALSE, statusCode |-> 400, err |-> "NotFound"]
    ELSE r

\* validateRefreshCookie(cookieStr): cookie.parse, the token entry, verifyJwt,
\* the refresh claim
validateRefreshCookie(cookieStr, t, key) ==
    LET r == verifyJwt(cookieStr.value, t, key) IN
    IF cookieStr.name # "token" \/ cookieStr.value = NoToken
    THEN [ok |-> FALSE, statusCode |-> 400, err |-> "NotOurCookie"]
    ELSE IF r.ok /\ ~r.data.refresh
    THEN [ok |-> FALSE, statusCode |-> 400, err |-> "InvalidRefreshToken"]
    ELSE r

\* ------------------------------------------------------------------ store
\* docClient.query on walletIdx: the keys of the items with this WalletId
QueryWalletIdx(w) == { u \in DOMAIN table : table[u].WalletId = w }

\* a lookup that takes the first of the records it finds
getUserByWalletIdFirst(walletId) ==
    LET users == QueryWalletIdx(toLowerCase(walletId)) IN
    IF users = {} THEN [ok |-> FALSE, statusCode |-> 400, err |-> "NotFound"]
    ELSE [ok |-> TRUE, statusCode |-> 200, err |-> "",
          user |-> table[CHOOSE u \in users : TRUE]]

\* getUserByWalletId(walletId)
getUserByWalletId(walletId) ==
    LET users == QueryWalletIdx(toLowerCase(walletId)) IN
    IF users = {} THEN [ok |-> FALSE, statusCode |-> 400, err |-> "NotFound"]
    ELSE IF Cardinality(users) > 1
         THEN [ok |-> FALSE, statusCode |-> 500, err |-> "MoreThanOneUser"]
         ELSE [ok |-> TRUE, statusCode |-> 200, err |-> "",
               user |-> table[CHOOSE u \in users : TRUE]]

\* docClient.put: writes the whole item, whatever was stored under the key
Put(item) ==
    [u \in DOMAIN table \cup {item.UserId} |->
        IF u = item.UserId THEN item ELSE table[u]]

\* docClient.update 'set LastLogin = :t, Nonce = :n': an absent key is created
Update(userId, loginTime, nonce) ==
    IF userId \in DOMAIN table
    THEN [table EXCEPT ![userId].LastLogin = loginTime, ![userId].Nonce = nonce]
    ELSE [u \in DOMAIN table \cup {userId} |->
            IF u = userId
            THEN [UserId |-> userId, WalletId |-> NoWallet, Verified |-> FALSE,
                  Nonce |-> nonce, CreatedTime |-> NoTime,
                  LastLogin |-> loginTime, ExpiryTime |-> NoTime]
            ELSE table[u]]

\* ------------------------------------------------------------- invocations
Loc0 ==
    [op |-> "none", walletId |-> "", signature |-> EmptySig,
     verify |-> FALSE, verified |-> FALSE, userId |-> "", updId |-> "",
     seen |-> <<>>, nonce |-> <<>>, expiryTime |-> NoTime, time |-> NoTime,
     replay |-> FALSE, sigClass |-> "none", requestId |-> "",
     token |-> NoToken]

Resp0 ==
    [op |-> "none", walletId |-> "", signature |-> EmptySig,
     verify |-> FALSE, login |-> "", replay |-> FALSE, sigClass |-> "none",
     seen |-> <<>>,
     success |-> FALSE, statusCode |-> 0, err |-> "", caught |-> 0,
     userId |-> "", nonce |-> <<>>, verified |-> FALSE, tokens |-> FALSE,
     requestId |-> NoRequestId, authToken |-> NoToken, cookie |-> NoCookie,
     given |-> NoCookie, effect |-> "", principalId |-> "", isAdmin |-> FALSE,
     retry |-> FALSE]

\* A request starts in an idle invocation; the invocations are
\* interchangeable, so it takes the first idle one
CanStart(p) ==
    /\ pc[p] = "idle"
    /\ \A q \in Procs : q < p => pc[q] # "idle"
    /\ started < env.requests

\* a catch block that passes the status on as it is
ReturnCodeUnmapped(op, statusCode) == StatusOf(statusCode)

\* const returnCode = (statusCode === 400) ? 401 : statusCode, in the catch
\* blocks of login, refresh-token and logout
ReturnCode(op, statusCode) ==
    IF op \in {"login", "refresh", "logout"} /\ StatusOf(statusCode) = 400
    THEN 401 ELSE StatusOf(statusCode)

\* The ApiError a handler throws: statusCode is the status of the error it
\* caught, 0 when the error has none; resp.caught keeps the status the
\* handler read from the error (500 when it has none).  resp also records the request it
\* answers: of a refused request what its signature was (sigClass), of an
\* accepted one the signature itself.
Fail(l, statusCode, err) ==
    [Resp0 EXCEPT !.op = l.op, !.walletId = l.walletId, !.verify = l.verify,
                  !.replay = l.replay, !.sigClass = l.sigClass, !.seen = l.seen,
                  !.statusCode = ReturnCode(l.op, statusCode),
                  !.caught = StatusOf(statusCode),
                  !.err = err, !.requestId = l.requestId]

\* The HTTP status API Gateway answers with for an ApiError of status
\* statusCode: the integration response whose selection pattern matches the
\* error message, the default one (200) when none does.
Reported(statusCode) ==
    CASE statusCode = 401 -> 401
      [] statusCode = 403 -> 403
      [] statusCode = 400 -> 400
      [] statusCode \in 500..599 -> 500
      [] OTHER -> 200

\* The errorMessage of the body API Gateway answers with: the message of the
\* ApiError in the templates of 400, 401 and 403, a fixed text in the one of
\* 5xx.
GenericMessage == "Sorry, something went wrong. Please try again later."

errorMessage(statusCode, err) ==
    IF Reported(statusCode) = 500 THEN GenericMessage ELSE err

Succeed(l) ==
    [Resp0 EXCEPT !.op = l.op, !.walletId = l.walletId,
                  !.signature = l.signature, !.verify = l.verify,
                  !.replay = l.replay, !.sigClass = l.sigClass, !.seen = l.seen,
                  !.success = TRUE, !.statusCode = 200,
                  !.requestId = l.requestId]

\* The table after the deployment, after create-user for wallet 0xa, and
\* after its verification: the states a first, a second and a third request
\* of wallet 0xa find.
Seeds(e) ==
    { [table |-> << >>, nonceCtr |-> 0, verifyOk |-> {}],
      [table |-> [u \in {"U1"} |->
                    [UserId |-> "U1", WalletId |-> "0xa", Verified |-> FALSE,
                     Nonce |-> createNonce(1), CreatedTime |-> 0,
                     LastLogin |-> 0, ExpiryTime |-> UnverifiedDays]],
       nonceCtr |-> 1, verifyOk |-> {}],
      [table |-> [u \in {"U1"} |->
                    [UserId |-> "U1", WalletId |-> "0xa", Verified |-> TRUE,
                     Nonce |-> createNonce(2), CreatedTime |-> 0,
                     LastLogin |-> 0, ExpiryTime |-> userExpiry]],
       nonceCtr |-> 2,
       verifyOk |-> {[wallet |-> "0xa", nonce |-> createNonce(1),
                      signature |-> [signer |-> "0xa",
                            msg |-> Message(e.SIGN_PREFIX, createNonce(1))]]}] }

Init ==
    /\ env \in Envs
    /\ \E s \in Seeds(env) :
        /\ table = s.table
        /\ nonceCtr = s.nonceCtr
        /\ verifyOk = s.verifyOk
    /\ now = 0
    /\ started = 0
    /\ pc = [p \in Procs |-> "idle"]
    /\ loc = [p \in Procs |-> Loc0]
    /\ resp = Resp0
    /\ loginOk = {}
    /\ issued = {}
    /\ refreshed = {}
    /\ loggedOut = {}
    /\ decided = << >>
    /\ pubKey = ""
    /\ fetched = 0

\* ------------------------------------------------------------------ clock
Tick ==
    /\ now < env.maxTime
    /\ now' = now + 1
    /\ UNCHANGED <<env, pubKey, fetched, decided, table, nonceCtr, started, pc, loc, resp, loginOk, verifyOk, issued, refreshed, loggedOut>>

\* timeToLiveAttribute 'ExpiryTime': the store removes an item past its expiry
Expire(u) ==
    /\ u \in DOMAIN table
    /\ table[u].ExpiryTime # NoTime
    /\ table[u].ExpiryTime <= now
    /\ table' = [v \in DOMAIN table \ {u} |-> table[v]]
    /\ UNCHANGED <<env, pubKey, fetched, decided, now, nonceCtr, started, pc, loc, resp, loginOk, verifyOk, issued, refreshed, loggedOut>>

\* ---------------------------------------------------------------- get-nonce
\* a get-nonce that ignores the requested purpose
NoncePrefixSign(isLogin) == env.SIGN_PREFIX

\* (isLogin) ? loginPrefix : signPrefix
NoncePrefix(isLogin) == IF isLogin THEN env.LOGIN_PREFIX ELSE env.SIGN_PREFIX

\* get-nonce handler: one query, then the answer
GetNonce(p, requestId, walletId, login) ==
    /\ CanStart(p)
    /\ started' = started + 1
    /\ LET l == [Loc0 EXCEPT !.op = "getNonce", !.requestId = requestId,
                             !.walletId = walletId]
           r == getUserByWalletId(walletId)
           isLogin == (login = "true")
       IN resp' =
            IF ~r.ok THEN [Fail(l, r.statusCode, r.err) EXCEPT !.login = login]
            ELSE [Succeed(l) EXCEPT
                    !.login = login,
                    !.nonce = Message(NoncePrefix(isLogin), r.user.Nonce),
                    !.seen = r.user.Nonce,
                    !.userId = r.user.UserId,
                    !.verified = r.user.Verified]
    /\ UNCHANGED <<env, pubKey, fetched, decided, table, now, nonceCtr, pc, loc, loginOk, verifyOk, issued, refreshed, loggedOut>>

\* ------------------------------------------------------------------- login
\* a login that skips the Verified check
LoginAllowedAlways(user) == TRUE

\* if (!verified) { throw ... }
LoginAllowed(user) == user.Verified

\* a login that builds its message with the sign prefix
LoginMessageSign(nonce) == Message(env.SIGN_PREFIX, nonce)

\* const message = `${noncePrefix}${nonce}`
LoginMessage(nonce) == Message(env.LOGIN_PREFIX, nonce)

\* login handler up to its first await on the store: getUserByWalletId, the
\* Verified check and the signature check
\* a login that draws a new nonce for every record before it checks anything
LoginStartTableBurn ==
    [u \in DOMAIN table |-> [table[u] EXCEPT !.Nonce = createNonce(0)]]

\* The table after the checks of the login handler: up to the signature
\* check it calls getUserByWalletId only, which reads
LoginStartTable == table

LoginStart(p, requestId, walletId, signature) ==
    /\ CanStart(p)
    /\ started' = started + 1
    /\ LET l == [Loc0 EXCEPT
                    !.op = "login", !.requestId = requestId,
                    !.walletId = walletId,
                    !.signature = signature,
                    !.replay = \E x \in loginOk :
                                  /\ x.wallet = toLowerCase(walletId)
                                  /\ x.signature = signature]
           r == getUserByWalletId(walletId)
           l2 == [l EXCEPT !.seen = r.user.Nonce,
                           !.sigClass = SigClass(walletId, r.user.Nonce, signature)]
       IN
       IF env.LOGIN_PREFIX = <<>>
       THEN /\ resp' = Fail(l, 500, "MissingEnvVariable")
            /\ UNCHANGED <<pc, loc>>
       ELSE IF signature = EmptySig
       THEN /\ resp' = Fail(l, 400, "MissingSignature")
            /\ UNCHANGED <<pc, loc>>
       ELSE IF ~r.ok
       THEN /\ resp' = Fail(l, r.statusCode, r.err)
            /\ UNCHANGED <<pc, loc>>
       ELSE IF ~LoginAllowed(r.user)
       THEN /\ resp' = Fail(l2, 400, "NotVerified")
            /\ UNCHANGED <<pc, loc>>
       ELSE IF isValidEthSignatureThrows(signature)
       THEN /\ resp' = Fail(l2, 0, "RecoverError")
            /\ UNCHANGED <<pc, loc>>
       ELSE IF ~isValidEthSignature(walletId, LoginMessage(r.user.Nonce), signature)
       THEN /\ resp' = Fail(l2, 400, "InvalidSignature")
            /\ UNCHANGED <<pc, loc>>
       ELSE /\ pc' = [pc EXCEPT ![p] = "login_getid"]
            /\ loc' = [loc EXCEPT ![p] = [l2 EXCEPT !.userId = r.user.UserId]]
            /\ UNCHANGED resp
    /\ table' = LoginStartTable
    /\ UNCHANGED <<env, pubKey, fetched, decided, now, nonceCtr, loginOk, verifyOk,
                   issued, refreshed, loggedOut>>

\* updateLoginByWalletId up to its update call: getUserIdByWalletId, then the
\* new nonce and the login time are drawn
LoginGetId(p) ==
    /\ pc[p] = "login_getid"
    /\ \/ \E st \in env.store :
            /\ resp' = Fail(loc[p], st, "StoreError")
            /\ pc' = [pc EXCEPT ![p] = "idle"]
            /\ loc' = [loc EXCEPT ![p] = Loc0]
            /\ UNCHANGED nonceCtr
       \/ LET r == getUserByWalletId(loc[p].walletId) IN
          IF ~r.ok
          THEN /\ resp' = Fail(loc[p], r.statusCode, r.err)
               /\ pc' = [pc EXCEPT ![p] = "idle"]
               /\ loc' = [loc EXCEPT ![p] = Loc0]
               /\ UNCHANGED nonceCtr
          ELSE /\ nonceCtr < MaxNonce
               /\ nonceCtr' = nonceCtr + 1
               /\ pc' = [pc EXCEPT ![p] = "login_update"]
               /\ loc' = [loc EXCEPT ![p].updId = r.user.UserId,
                                     ![p].nonce = createNonce(nonceCtr + 1),
                                     ![p].time = now]
               /\ UNCHANGED resp
    /\ UNCHANGED <<env, pubKey, fetched, decided, table, now, started, loginOk, verifyOk, issued, refreshed, loggedOut>>

\* an update that writes back the nonce that was just proven
RotatedNonceStale(l) == l.seen

\* the nonce written by updateLoginByWalletId: ':n': nonce
RotatedNonce(l) == l.nonce

\* a login that signs the tokens first and updates the record after them
LoginTableTokensFirst(l, signer) ==
    IF signer = 200 THEN Update(l.updId, l.time, RotatedNonce(l)) ELSE table

\* The table after the login of locals l: `await updateLoginByWalletId` has
\* returned before createAuthToken is called, whatever kms.sign answers then
LoginTable(l, signer) == Update(l.updId, l.time, RotatedNonce(l))

\* docClient.update of updateLoginByWalletId (it answers, or fails with an
\* error of a status of env.store), then the two tokens are signed
\* (kms.sign answers, or fails with an error of status signer) and the
\* handler returns.  resp.retry records that the response before this one
\* was a login whose signing failed.
LoginUpdate(p) ==
    /\ pc[p] = "login_update"
    /\ pc' = [pc EXCEPT ![p] = "idle"]
    /\ loc' = [loc EXCEPT ![p] = Loc0]
    /\ \/ \E st \in env.store :
            /\ resp' = Fail(loc[p], st, "StoreError")
            /\ UNCHANGED <<table, loginOk, issued>>
       \/ \E signer \in SdkStatus \cup {200} :
            /\ table' = LoginTable(loc[p], signer)
            /\ IF signer = 200
               THEN /\ resp' = [Succeed(loc[p]) EXCEPT
                                   !.userId = loc[p].userId,
                                   !.tokens = TRUE,
                                   !.retry = (resp.op = "login"
                                               /\ resp.err = "SignerError"),
                                   !.authToken = createAuthToken(loc[p].userId, now),
                                   !.cookie = createRefreshCookie(loc[p].userId, now)]
                    /\ issued' = issued \cup
                           {createAuthToken(loc[p].userId, now),
                            createRefreshToken(loc[p].userId, now)}
                    /\ loginOk' = loginOk \cup
                           {[wallet |-> toLowerCase(loc[p].walletId),
                             nonce |-> loc[p].seen, signature |-> loc[p].signature,
                             n |-> 1 + Cardinality({x \in loginOk :
                                       /\ x.wallet = toLowerCase(loc[p].walletId)
                                       /\ x.nonce = loc[p].seen})]}
               ELSE /\ resp' = Fail(loc[p], signer, "SignerError")
                    /\ UNCHANGED <<loginOk, issued>>
    /\ UNCHANGED <<env, pubKey, fetched, decided, now, nonceCtr, started, verifyOk, refreshed, loggedOut>>

\* -------------------------------------------------------------- create-user
\* a verification that does not look at the result of the signature check
VerifiedFlagUnchecked(verify, valid) == verify

\* verified = (verify && isValidEthSignature(...))
VerifiedFlag(verify, valid) == verify /\ valid

\* a createUser without the existing-user check
IsConflictNever(userExists, verify) == FALSE

\* if (userExists && !verify) { throw ... }
IsConflict(userExists, verify) == userExists /\ ~verify

\* an Item that keeps the nonce that was just proven
UserItemKeepNonce(l) ==
    [UserId |-> l.userId, WalletId |-> toLowerCase(l.walletId),
     Verified |-> l.verified, Nonce |-> IF l.verify THEN l.seen ELSE l.nonce,
     CreatedTime |-> l.time, LastLogin |-> l.time, ExpiryTime |-> l.expiryTime]

\* an Item that keeps the CreatedTime of the record it replaces
UserItemKeepCreated(l) ==
    [UserId |-> l.userId, WalletId |-> toLowerCase(l.walletId),
     Verified |-> l.verified, Nonce |-> l.nonce,
     CreatedTime |-> IF l.userId \in DOMAIN table
                     THEN table[l.userId].CreatedTime ELSE l.time,
     LastLogin |-> l.time, ExpiryTime |-> l.expiryTime]

\* The Item createUser puts
UserItem(l) ==
    [UserId |-> l.userId, WalletId |-> toLowerCase(l.walletId),
     Verified |-> l.verified, Nonce |-> l.nonce, CreatedTime |-> l.time,
     LastLogin |-> l.time, ExpiryTime |-> l.expiryTime]

\* create-user handler and createUser up to the call after
\* userExistsByWalletId.  Without verify the expiry, the nonce and the random
\* userId are drawn here and only the put remains.
CuStart(p, requestId, walletId, verify, signature) ==
    /\ CanStart(p)
    /\ started' = started + 1
    /\ LET l == [Loc0 EXCEPT
                    !.op = "createUser", !.requestId = requestId,
                    !.walletId = walletId, !.verify = verify,
                    !.signature = signature]
           r == getUserByWalletId(walletId)
           userExists == r.ok
       IN
       IF ethersSetupThrows
       THEN /\ \E st \in SdkStatus : resp' = Fail(l, st, "SecretError")
            /\ UNCHANGED <<pc, loc, nonceCtr>>
       ELSE IF ~isValidEthAddress(walletId)
       THEN /\ resp' = Fail(l, 400, "InvalidWalletId")
            /\ UNCHANGED <<pc, loc, nonceCtr>>
       ELSE IF verify /\ (signature = EmptySig \/ env.SIGN_PREFIX = <<>>)
       THEN /\ resp' = Fail(l, 400, "SignatureRequired")
            /\ UNCHANGED <<pc, loc, nonceCtr>>
       ELSE IF ~r.ok /\ r.statusCode # 400
       THEN /\ resp' = Fail(l, r.statusCode, r.err)
            /\ UNCHANGED <<pc, loc, nonceCtr>>
       ELSE IF IsConflict(userExists, verify)
       THEN /\ resp' = Fail([l EXCEPT !.seen = r.user.Nonce], 400, "Conflict")
            /\ UNCHANGED <<pc, loc, nonceCtr>>
       ELSE IF verify /\ ~userExists
       THEN /\ resp' = Fail(l, 400, "UserDoesNotExist")
            /\ UNCHANGED <<pc, loc, nonceCtr>>
       ELSE IF verify
       THEN /\ pc' = [pc EXCEPT ![p] = "cu_nonce"]
            /\ loc' = [loc EXCEPT ![p] = l]
            /\ UNCHANGED <<resp, nonceCtr>>
       ELSE /\ nonceCtr < MaxNonce
            /\ nonceCtr' = nonceCtr + 1
            /\ \E newId \in UserIds :
                loc' = [loc EXCEPT ![p] =
                    [l EXCEPT !.verified = VerifiedFlag(verify, FALSE),
                              !.expiryTime = now + UnverifiedDays,
                              !.nonce = createNonce(nonceCtr + 1),
                              !.userId = newId,
                              !.time = now]]
            /\ pc' = [pc EXCEPT ![p] = "cu_put"]
            /\ UNCHANGED resp
    /\ UNCHANGED <<env, pubKey, fetched, decided, table, now, loginOk, verifyOk, issued, refreshed, loggedOut>>

\* createUser with verify: getUserNonceByWalletId, the signature check, then
\* the expiry and the new nonce are drawn
CuNonce(p) ==
    /\ pc[p] = "cu_nonce"
    /\ LET l == loc[p]
           r == getUserByWalletId(l.walletId)
       IN
       IF ~r.ok
       THEN /\ resp' = Fail(l, r.statusCode, r.err)
            /\ pc' = [pc EXCEPT ![p] = "idle"]
            /\ loc' = [loc EXCEPT ![p] = Loc0]
            /\ UNCHANGED <<nonceCtr, verifyOk>>
       ELSE IF isValidEthSignatureThrows(l.signature)
       THEN /\ resp' = Fail([l EXCEPT !.seen = r.user.Nonce,
                                      !.sigClass = SigClass(l.walletId,
                                            r.user.Nonce, l.signature)],
                            0, "RecoverError")
            /\ pc' = [pc EXCEPT ![p] = "idle"]
            /\ loc' = [loc EXCEPT ![p] = Loc0]
            /\ UNCHANGED <<nonceCtr, verifyOk>>
       ELSE IF ~VerifiedFlag(l.verify, isValidEthSignature(l.walletId,
                    Message(env.SIGN_PREFIX, r.user.Nonce), l.signature))
       THEN /\ resp' = Fail([l EXCEPT !.seen = r.user.Nonce,
                                      !.sigClass = SigClass(l.walletId,
                                            r.user.Nonce, l.signature)],
                            400, "InvalidSignature")
            /\ pc' = [pc EXCEPT ![p] = "idle"]
            /\ loc' = [loc EXCEPT ![p] = Loc0]
            /\ UNCHANGED <<nonceCtr, verifyOk>>
       ELSE /\ nonceCtr < MaxNonce
            /\ nonceCtr' = nonceCtr + 1
            /\ loc' = [loc EXCEPT ![p].verified = TRUE,
                                  ![p].sigClass = SigClass(l.walletId,
                                                r.user.Nonce, l.signature),
                                  ![p].seen = r.user.Nonce,
                                  ![p].expiryTime = now + userExpiry,
                                  ![p].nonce = createNonce(nonceCtr + 1)]
            /\ pc' = [pc EXCEPT ![p] = "cu_id"]
            /\ verifyOk' = verifyOk \cup
                    {[wallet |-> r.user.WalletId, nonce |-> r.user.Nonce,
                      signature |-> l.signature]}
            /\ UNCHANGED resp
    /\ UNCHANGED <<env, pubKey, fetched, decided, table, now, started, loginOk, issued, refreshed, loggedOut>>

\* createUser with verify: getUserIdByWalletId, then the Item is built
CuId(p) ==
    /\ pc[p] = "cu_id"
    /\ LET r == getUserByWalletId(loc[p].walletId) IN
       IF ~r.ok
       THEN /\ resp' = Fail(loc[p], r.statusCode, r.err)
            /\ pc' = [pc EXCEPT ![p] = "idle"]
            /\ loc' = [loc EXCEPT ![p] = Loc0]
       ELSE /\ loc' = [loc EXCEPT ![p].userId = r.user.UserId, ![p].time = now]
            /\ pc' = [pc EXCEPT ![p] = "cu_put"]
            /\ UNCHANGED resp
    /\ UNCHANGED <<env, pubKey, fetched, decided, table, now, nonceCtr, started, loginOk, verifyOk, issued, refreshed, loggedOut>>

\* docClient.put of createUser, then the handler returns
CuPut(p) ==
    /\ pc[p] = "cu_put"
    /\ table' = Put(UserItem(loc[p]))
    /\ resp' = [Succeed(loc[p]) EXCEPT
                    !.userId = loc[p].userId,
                    !.nonce = Message(env.SIGN_PREFIX, loc[p].nonce)]
    /\ pc' = [pc EXCEPT ![p] = "idle"]
    /\ loc' = [loc EXCEPT ![p] = Loc0]
    /\ UNCHANGED <<env, pubKey, fetched, decided, now, nonceCtr, started, loginOk, verifyOk, issued, refreshed, loggedOut>>

\* ------------------------------------------------------------ test-api-write
\* return { success: result, message: 'Succesful write request' }
WriteResult(l) == [Succeed(l) EXCEPT !.requestId = NoRequestId]

\* signed write handler: getUserNonceByWalletId and the signature check
Write(p, requestId, walletId, signature) ==
    /\ CanStart(p)
    /\ started' = started + 1
    /\ LET l == [Loc0 EXCEPT !.op = "write", !.requestId = requestId,
                             !.walletId = walletId, !.signature = signature]
           r == getUserByWalletId(walletId)
       IN resp' =
            IF signature = EmptySig THEN Fail(l, 400, "MissingSignature")
            ELSE IF ~r.ok THEN Fail(l, r.statusCode, r.err)
            ELSE IF isValidEthSignatureThrows(signature)
            THEN Fail([l EXCEPT !.seen = r.user.Nonce,
                                !.sigClass = SigClass(walletId, r.user.Nonce,
                                                      signature)],
                      0, "RecoverError")
            ELSE IF ~isValidEthSignature(walletId,
                        Message(env.SIGN_PREFIX, r.user.Nonce), signature)
            THEN Fail([l EXCEPT !.seen = r.user.Nonce,
                                !.sigClass = SigClass(walletId, r.user.Nonce,
                                                      signature)],
                      400, "InvalidSignature")
            ELSE WriteResult([l EXCEPT !.seen = r.user.Nonce,
                                       !.sigClass = SigClass(walletId,
                                                r.user.Nonce, signature)])
    /\ UNCHANGED <<env, pubKey, fetched, decided, table, now, nonceCtr, pc, loc, loginOk, verifyOk, issued, refreshed, loggedOut>>

\* ---------------------------------------------------------------- sessions
\* What a caller can present as a token: a token the service signed, such a
\* token with its refresh claim or its exp changed (the signature is the old
\* one), or a string that is no JWT
Presentable ==
    issued
    \cup { [T EXCEPT !.payload.refresh = ~@] : T \in issued }
    \cup { [T EXCEPT !.payload.exp = @ + 1] : T \in issued }
    \cup { Garbage }

\* The cookie headers a caller can send: none, one without a token entry,
\* the logout cookie, or a token entry with a presentable token
Cookies ==
    { NoCookie, [name |-> "other", value |-> Garbage, maxAge |-> 0],
      createLogoutCookie }
    \cup { [name |-> "token", value |-> T, maxAge |-> refreshTime * 60] :
            T \in Presentable }

\* refresh-token handler; key and signer are 200 when KMS answers and else
\* the status of its error.  The handler touches no shared state, so it is
\* one step.
Refresh(p, requestId, cookie, key, signer) ==
    /\ CanStart(p)
    /\ started' = started + 1
    /\ LET l == [Loc0 EXCEPT !.op = "refresh", !.requestId = requestId]
           v == validateRefreshCookie(cookie, now, key)
           userId == v.data.sub
       IN
       IF cookie = NoCookie
       THEN /\ resp' = [Fail(l, 400, "MissingCookie") EXCEPT !.given = cookie]
            /\ UNCHANGED <<issued, refreshed, loggedOut>>
       ELSE IF ~v.ok
       THEN /\ resp' = [Fail(l, v.statusCode, v.err) EXCEPT !.given = cookie]
            /\ UNCHANGED <<issued, refreshed, loggedOut>>
       ELSE IF userId = ""
       THEN /\ resp' = [Fail(l, 0, "NoUserId") EXCEPT !.given = cookie]
            /\ UNCHANGED <<issued, refreshed, loggedOut>>
       ELSE IF signer # 200
       THEN /\ resp' = [Fail(l, signer, "SignerError") EXCEPT !.given = cookie]
            /\ UNCHANGED <<issued, refreshed, loggedOut>>
       ELSE /\ resp' = [Succeed(l) EXCEPT
                            !.given = cookie,
                            !.userId = userId,
                            !.tokens = TRUE,
                            !.authToken = createAuthToken(userId, now),
                            !.cookie = createRefreshCookie(userId, now)]
            /\ issued' = issued \cup {createAuthToken(userId, now),
                                      createRefreshToken(userId, now)}
            /\ refreshed' = refreshed \cup
                    {[given |-> cookie.value, at |-> now,
                      exp |-> createRefreshToken(userId, now).payload.exp,
                      n |-> 1 + Cardinality({x \in refreshed :
                                                x.given = cookie.value})]}
    /\ UNCHANGED <<env, pubKey, fetched, decided, table, now, nonceCtr, pc, loc, loginOk, verifyOk,
                   loggedOut>>

\* logout handler
Logout(p, requestId, cookie, key) ==
    /\ CanStart(p)
    /\ started' = started + 1
    /\ LET l == [Loc0 EXCEPT !.op = "logout", !.requestId = requestId]
           v == validateRefreshCookie(cookie, now, key)
       IN
       IF cookie = NoCookie
       THEN /\ resp' = [Fail(l, 400, "MissingCookie") EXCEPT !.given = cookie]
            /\ UNCHANGED loggedOut
       ELSE IF ~v.ok
       THEN /\ resp' = [Fail(l, v.statusCode, v.err) EXCEPT !.given = cookie]
            /\ UNCHANGED loggedOut
       ELSE IF v.data.sub = ""
       THEN /\ resp' = [Fail(l, 0, "NoUserId") EXCEPT !.given = cookie]
            /\ UNCHANGED loggedOut
       ELSE /\ resp' = [Succeed(l) EXCEPT !.given = cookie,
                                          !.userId = v.data.sub,
                                          !.cookie = createLogoutCookie]
            /\ loggedOut' = loggedOut \cup {cookie.value}
    /\ UNCHANGED <<env, pubKey, fetched, decided, table, now, nonceCtr, pc, loc, loginOk, verifyOk,
                   issued, refreshed>>

\* a policy that never names the subject
PolicyNoPrincipal(v) ==
    [effect |-> IF v.ok THEN "Allow" ELSE "Deny", principalId |-> "Unknown",
     isAdmin |-> FALSE]

\* The policy the authorizer returns for the result v of validateAuthToken
Policy(v) ==
    IF v.ok
    THEN [effect |-> "Allow", principalId |-> v.data.sub,
          isAdmin |-> v.data.admin]
    ELSE [effect |-> "Deny", principalId |-> "Unknown", isAdmin |-> FALSE]

\* an Allow kept from the run before and reused for the next token
AuthorizerPolicyCached(token, t, key) ==
    IF resp.op = "authorizer" /\ resp.effect = "Allow"
    THEN [effect |-> resp.effect, principalId |-> resp.principalId,
          isAdmin |-> resp.isAdmin]
    ELSE Policy(validateAuthToken(token, t, key))

\* The policy of one run of the authorizer: made from the token of this run
AuthorizerPolicy(token, t, key) == Policy(validateAuthToken(token, t, key))

\* The token is inside its validity window at time t (a string that is no
\* JWT has none)
InWindow(token, t) == token.text = "jwt" => t < token.payload.exp

\* authorizer handler: event.authorizationToken, no request context.  resp.err
\* records the error the handler caught and did not pass on.  The handler
\* keeps nothing between two runs but the public key, and API Gateway keeps
\* no policy (resultsCacheTtl is 0).
Authorizer(p, token, key) ==
    /\ CanStart(p)
    /\ started' = started + 1
    /\ LET v == validateAuthToken(token, now, key)
           policy == AuthorizerPolicy(token, now, key)
       IN /\ resp' = [Resp0 EXCEPT
                    !.op = "authorizer",
                    !.given = [name |-> "Authorization", value |-> token,
                               maxAge |-> 0],
                    !.success = TRUE, !.statusCode = 200, !.err = v.err,
                    !.effect = policy.effect,
                    !.principalId = policy.principalId,
                    !.isAdmin = policy.isAdmin]
          /\ decided' = IF key = 200 /\ InWindow(token, now)
                        THEN Append(decided,
                                [token |-> token, effect |-> policy.effect,
                                 principalId |-> policy.principalId,
                                 isAdmin |-> policy.isAdmin])
                        ELSE decided
    /\ UNCHANGED <<env, pubKey, fetched, table, now, nonceCtr, pc, loc, loginOk,
                   verifyOk, issued, refreshed, loggedOut>>

\* get-user handler
GetUser(p, requestId, walletId) ==
    /\ CanStart(p)
    /\ started' = started + 1
    /\ LET l == [Loc0 EXCEPT !.op = "getUser", !.requestId = requestId,
                             !.walletId = walletId]
           r == getUserByWalletId(walletId)
       IN resp' =
            IF ~r.ok THEN Fail(l, r.statusCode, r.err)
            ELSE [Succeed(l) EXCEPT !.userId = r.user.UserId,
                                    !.verified = r.user.Verified]
    /\ UNCHANGED <<env, pubKey, fetched, decided, table, now, nonceCtr, pc, loc, loginOk, verifyOk,
                   issued, refreshed, loggedOut>>

\* test-api-read handler
Read(p, requestId) ==
    /\ CanStart(p)
    /\ started' = started + 1
    /\ resp' = Succeed([Loc0 EXCEPT !.op = "read", !.requestId = requestId])
    /\ UNCHANGED <<env, pubKey, fetched, decided, table, now, nonceCtr, pc, loc, loginOk, verifyOk,
                   issued, refreshed, loggedOut>>

Next ==
    \/ Tick
    \/ \E u \in UserIds : Expire(u)
    \/ \E p \in Procs, rid \in env.requestIds, w \in env.walletIds,
          lg \in {"true", "false", ""} : GetNonce(p, rid, w, lg)
    \/ \E p \in Procs, rid \in env.requestIds, w \in env.walletIds,
          sig \in Signatures \cup {EmptySig} : LoginStart(p, rid, w, sig)
    \/ \E p \in Procs : LoginGetId(p)
    \/ \E p \in Procs : LoginUpdate(p)
    \/ \E p \in Procs, rid \in env.requestIds, w \in env.walletIds,
          v \in BOOLEAN, sig \in Signatures \cup {EmptySig} :
            CuStart(p, rid, w, v, sig)
    \/ \E p \in Procs : CuNonce(p)
    \/ \E p \in Procs : CuId(p)
    \/ \E p \in Procs : CuPut(p)
    \/ \E p \in Procs, rid \in env.requestIds, w \in env.walletIds,
          sig \in Signatures \cup {EmptySig} : Write(p, rid, w, sig)

Spec == Init /\ [][Next]_vars

\* ------------------------------------------------- sessions, one at a time
\* The deployment of the session runs: the behaviour is followed until the
\* refresh token of a login at time 0 expires
SessionEnvs ==
    { [LOGIN_PREFIX |-> <<"L">>, SIGN_PREFIX |-> <<"S">>, walletIds |-> {"0xa"},
       requestIds |-> {"r1"}, maxTime |-> refreshTime,
       requests |-> MaxRequests, secret |-> "skip",
       store |-> {}] }

\* The state after the verified wallet 0xa, whose record has the key userId,
\* has logged in at time 0 with its signature over the login message of
\* nonce 2
AfterLogin(e, userId) ==
    [table |-> [u \in {userId} |->
                    [UserId |-> userId, WalletId |-> "0xa", Verified |-> TRUE,
                     Nonce |-> createNonce(3), CreatedTime |-> 0,
                     LastLogin |-> 0, ExpiryTime |-> userExpiry]],
     nonceCtr |-> 3,
     verifyOk |-> {[wallet |-> "0xa", nonce |-> createNonce(1),
                    signature |-> [signer |-> "0xa",
                            msg |-> Message(e.SIGN_PREFIX, createNonce(1))]]},
     loginOk |-> {[wallet |-> "0xa", nonce |-> createNonce(2),
                   signature |-> [signer |-> "0xa",
                            msg |-> Message(e.LOGIN_PREFIX, createNonce(2))],
                   n |-> 1]},
     issued |-> {createAuthToken(userId, 0), createRefreshToken(userId, 0)}]

InitSession ==
    /\ env \in SessionEnvs
    /\ \/ \E s \in Seeds(env) :
            /\ table = s.table
            /\ nonceCtr = s.nonceCtr
            /\ verifyOk = s.verifyOk
            /\ loginOk = {}
            /\ issued = {}
       \/ \E u \in UserIds :
            /\ table = AfterLogin(env, u).table
            /\ nonceCtr = AfterLogin(env, u).nonceCtr
            /\ verifyOk = AfterLogin(env, u).verifyOk
            /\ loginOk = AfterLogin(env, u).loginOk
            /\ issued = AfterLogin(env, u).issued
    /\ now = 0
    /\ started = 0
    /\ pc = [p \in Procs |-> "idle"]
    /\ loc = [p \in Procs |-> Loc0]
    /\ resp = Resp0
    /\ refreshed = {}
    /\ loggedOut = {}
    /\ decided = << >>
    /\ pubKey = ""
    /\ fetched = 0

\* One caller at a time: logins, then refreshes, logouts and authorizations
\* with what the caller holds or makes up
NextSession ==
    \/ Tick
    \/ \E u \in UserIds : Expire(u)
    \/ \E rid \in env.requestIds, w \in env.walletIds,
          sig \in Signatures \cup {EmptySig} : LoginStart(1, rid, w, sig)
    \/ LoginGetId(1)
    \/ LoginUpdate(1)
    \/ \E rid \in env.requestIds, c \in Cookies,
          key \in SdkStatus \cup {200}, signer \in SdkStatus \cup {200} :
            Refresh(1, rid, c, key, signer)
    \/ \E rid \in env.requestIds, c \in Cookies, key \in SdkStatus \cup {200} :
            Logout(1, rid, c, key)
    \/ \E T \in Presentable \cup {NoToken}, key \in SdkStatus \cup {200} :
            Authorizer(1, T, key)
    \/ \E rid \in env.requestIds, w \in env.walletIds : GetUser(1, rid, w)
    \/ \E rid \in env.requestIds : Read(1, rid)

SpecSession == InitSession /\ [][NextSession]_vars

\* ------------------------------------------------------- one client's flow
\* The requests of a client that signs up, verifies and logs in, in order
Flow == <<"createUser", "getNonceSign", "verify", "getNonceLogin", "login",
          "authorizer">>

\* The deployments of the flow: one wallet, followed for the whole flow
FlowEnvs ==
    { [LOGIN_PREFIX |-> <<"L">>, SIGN_PREFIX |-> P, walletIds |-> {"0xa"},
       requestIds |-> {"r1"}, maxTime |-> MaxTime, requests |-> Len(Flow),
       secret |-> "skip",
       store |-> {}] :
      P \in {<<"S">>, <<"L">>} }

InitFlow ==
    /\ env \in FlowEnvs
    /\ table = << >>
    /\ nonceCtr = 0
    /\ now = 0
    /\ started = 0
    /\ pc = [p \in Procs |-> "idle"]
    /\ loc = [p \in Procs |-> Loc0]
    /\ resp = Resp0
    /\ loginOk = {}
    /\ verifyOk = {}
    /\ issued = {}
    /\ refreshed = {}
    /\ loggedOut = {}
    /\ decided = << >>
    /\ pubKey = ""
    /\ fetched = 0

\* The client's next request: it signs the message the last get-nonce
\* returned with the key of its wallet, and bears the authToken the login
\* returned.  It gives up when a request failed with an error of KMS.
FlowRequest(kind) ==
    /\ started < Len(Flow)
    /\ Flow[started + 1] = kind
    /\ resp.err # "SignerError"

NextFlow ==
    \/ Tick
    \/ \E u \in UserIds : Expire(u)
    \/ \E rid \in env.requestIds, w \in env.walletIds :
            FlowRequest("createUser") /\ CuStart(1, rid, w, FALSE, EmptySig)
    \/ \E rid \in env.requestIds, w \in env.walletIds :
            FlowRequest("getNonceSign") /\ GetNonce(1, rid, w, "false")
    \/ \E rid \in env.requestIds, w \in env.walletIds :
            /\ FlowRequest("verify")
            /\ CuStart(1, rid, w, TRUE, [signer |-> w, msg |-> resp.nonce])
    \/ \E rid \in env.requestIds, w \in env.walletIds :
            FlowRequest("getNonceLogin") /\ GetNonce(1, rid, w, "true")
    \/ \E rid \in env.requestIds, w \in env.walletIds :
            /\ FlowRequest("login")
            /\ LoginStart(1, rid, w, [signer |-> w, msg |-> resp.nonce])
    \/ \E key \in SdkStatus \cup {200} :
            FlowRequest("authorizer") /\ Authorizer(1, resp.authToken, key)
    \/ CuNonce(1)
    \/ CuId(1)
    \/ CuPut(1)
    \/ LoginGetId(1)
    \/ LoginUpdate(1)

SpecFlow == InitFlow /\ [][NextFlow]_vars

\* ------------------------------------- the store's use cases, one at a time
\* The deployment of the serial runs: the callers spell the wallet id in
\* lower case or in mixed case
SerialEnvs ==
    { [LOGIN_PREFIX |-> <<"L">>, SIGN_PREFIX |-> <<"S">>,
       walletIds |-> {"0xa", "0xA"}, requestIds |-> {"r1"},
       maxTime |-> MaxTime, requests |-> MaxRequests,
       secret |-> "skip",
       store |-> {}] }

InitSerial ==
    /\ env \in SerialEnvs
    /\ \E s \in Seeds(env) :
        /\ table = s.table
        /\ nonceCtr = s.nonceCtr
        /\ verifyOk = s.verifyOk
    /\ now = 0
    /\ started = 0
    /\ pc = [p \in Procs |-> "idle"]
    /\ loc = [p \in Procs |-> Loc0]
    /\ resp = Resp0
    /\ loginOk = {}
    /\ issued = {}
    /\ refreshed = {}
    /\ loggedOut = {}
    /\ decided = << >>
    /\ pubKey = ""
    /\ fetched = 0

\* One request at a time, each running to its response before the next
\* starts; the callers also send strings that are no signatures
NextSerial ==
    \/ Tick
    \/ \E u \in UserIds : Expire(u)
    \/ \E rid \in env.requestIds, w \in env.walletIds,
          lg \in {"true", "false", ""} : GetNonce(1, rid, w, lg)
    \/ \E rid \in env.requestIds, w \in env.walletIds,
          sig \in Signatures \cup {EmptySig, Malformed} :
            LoginStart(1, rid, w, sig)
    \/ LoginGetId(1)
    \/ LoginUpdate(1)
    \/ \E rid \in env.requestIds, w \in env.walletIds,
          v \in BOOLEAN, sig \in Signatures \cup {EmptySig, Malformed} :
            CuStart(1, rid, w, v, sig)
    \/ CuNonce(1)
    \/ CuId(1)
    \/ CuPut(1)
    \/ \E rid \in env.requestIds, w \in env.walletIds,
          sig \in Signatures \cup {EmptySig, Malformed} :
            Write(1, rid, w, sig)

SpecSerial == InitSerial /\ [][NextSerial]_vars

\* ------------------------------------------------- logins on a failing store
\* The user table may fail the calls of updateLoginByWalletId
StoreEnvs ==
    { [LOGIN_PREFIX |-> <<"L">>, SIGN_PREFIX |-> <<"S">>,
       walletIds |-> {"0xa"}, requestIds |-> {"r1"},
       maxTime |-> MaxTime, requests |-> MaxRequests,
       secret |-> "skip", store |-> SdkStatus] }

InitStore ==
    /\ env \in StoreEnvs
    /\ \E s \in Seeds(env) :
        /\ table = s.table
        /\ nonceCtr = s.nonceCtr
        /\ verifyOk = s.verifyOk
    /\ now = 0
    /\ started = 0
    /\ pc = [p \in Procs |-> "idle"]
    /\ loc = [p \in Procs |-> Loc0]
    /\ resp = Resp0
    /\ loginOk = {}
    /\ issued = {}
    /\ refreshed = {}
    /\ loggedOut = {}
    /\ decided = << >>
    /\ pubKey = ""
    /\ fetched = 0

\* Logins of one wallet, racing with each other and with the expiry
NextStore ==
    \/ Tick
    \/ \E u \in UserIds : Expire(u)
    \/ \E p \in Procs, rid \in env.requestIds, w \in env.walletIds,
          sig \in Signatures \cup {EmptySig} : LoginStart(p, rid, w, sig)
    \/ \E p \in Procs : LoginGetId(p)
    \/ \E p \in Procs : LoginUpdate(p)

SpecStore == InitStore /\ [][NextStore]_vars

\* ------------------------------------------- the public key of one container
\* The calls of verifyJwt made in one container (one Node.js process): Procs
\* are the calls that may be pending at the same time, each suspended at the
\* await of kms.getPublicKey.
Pem == "pem"

\* verifyJwt({ token }) up to the await in getPubKey: `if (pubKey) { return
\* true; }`, then jwt.verify with the cached key; else kms.getPublicKey is
\* called and the call waits for its answer
VerifyStart(p, token) ==
    /\ CanStart(p)
    /\ started' = started + 1
    /\ LET l == [Loc0 EXCEPT !.op = "verifyJwt", !.token = token]
           v == verifyJwt(token, now, 200)
       IN
       IF pubKey # ""
       THEN /\ resp' = [(IF v.ok THEN Succeed(l)
                                ELSE Fail(l, v.statusCode, v.err))
                            EXCEPT !.given = [name |-> "Authorization",
                                              value |-> token, maxAge |-> 0]]
            /\ UNCHANGED <<pc, loc, fetched>>
       ELSE /\ fetched' = fetched + 1
            /\ pc' = [pc EXCEPT ![p] = "vj_fetch"]
            /\ loc' = [loc EXCEPT ![p] = l]
            /\ UNCHANGED resp
    /\ UNCHANGED <<env, decided, pubKey, table, now, nonceCtr, loginOk,
                   verifyOk, issued, refreshed, loggedOut>>

\* kms.getPublicKey answers the pending call p: with the key (key = 200),
\* which is stored in pubKey before jwt.verify runs, or with an error of
\* status key, which getPubKey rethrows
VerifyFetched(p, key) ==
    /\ pc[p] = "vj_fetch"
    /\ pc' = [pc EXCEPT ![p] = "idle"]
    /\ loc' = [loc EXCEPT ![p] = Loc0]
    /\ LET token == loc[p].token
           v == verifyJwt(token, now, key) IN
       /\ pubKey' = IF key = 200 THEN Pem ELSE pubKey
       /\ resp' = [(IF v.ok THEN Succeed(loc[p])
                           ELSE Fail(loc[p], v.statusCode, v.err))
                       EXCEPT !.given = [name |-> "Authorization",
                                         value |-> token, maxAge |-> 0]]
    /\ UNCHANGED <<env, decided, fetched, table, now, nonceCtr, started,
                   loginOk, verifyOk, issued, refreshed, loggedOut>>

KeyEnvs ==
    { [LOGIN_PREFIX |-> <<"L">>, SIGN_PREFIX |-> <<"S">>, walletIds |-> {"0xa"},
       requestIds |-> {"r1"}, maxTime |-> MaxTime,
       requests |-> MaxRequests + 1, secret |-> "skip", store |-> {}] }

\* a cold container, after a login at time 0
InitKey ==
    /\ env \in KeyEnvs
    /\ \E u \in UserIds :
        /\ table = AfterLogin(env, u).table
        /\ nonceCtr = AfterLogin(env, u).nonceCtr
        /\ verifyOk = AfterLogin(env, u).verifyOk
        /\ loginOk = AfterLogin(env, u).loginOk
        /\ issued = AfterLogin(env, u).issued
    /\ now = 0
    /\ started = 0
    /\ pc = [p \in Procs |-> "idle"]
    /\ loc = [p \in Procs |-> Loc0]
    /\ resp = Resp0
    /\ refreshed = {}
    /\ loggedOut = {}
    /\ decided = << >>
    /\ pubKey = ""
    /\ fetched = 0

NextKey ==
    \/ Tick
    \/ \E p \in Procs, T \in Presentable : VerifyStart(p, T)
    \/ \E p \in Procs, key \in SdkStatus \cup {200} : VerifyFetched(p, key)

SpecKey == InitKey /\ [][NextKey]_vars

\* ------------------------------------------------------------ the gateway
\* a route table that leaves test/read without the authorizer
MethodsWithAuthorizerNoRead == {"getUser", "write"}

\* The handlers of the methods added with `authorizer`: GET
\* auth/get-user/{walletid}, GET test/read, POST test/write
MethodsWithAuthorizer == {"getUser", "read", "write"}

\* the handlers of the methods of the API
Methods ==
    {"getUser", "getNonce", "createUser", "read", "write", "login", "refresh",
     "logout"}

\* API Gateway invokes the integration of method op for the request at hand:
\* at once when the method has no authorizer, and else only when the
\* authorizer, asked about this request's token, has just returned Allow
\* (the decisions are not cached: resultsCacheTtl is 0)
Invokes(op) ==
    op \in MethodsWithAuthorizer
    => resp.op = "authorizer" /\ resp.effect = "Allow"

GatewayEnvs ==
    { [LOGIN_PREFIX |-> <<"L">>, SIGN_PREFIX |-> <<"S">>, walletIds |-> {"0xa"},
       requestIds |-> {"r1"}, maxTime |-> MaxTime, requests |-> MaxRequests,
       secret |-> "skip", store |-> {}] }

\* a wallet unknown, unverified or verified, or one that has logged in
InitGateway ==
    /\ env \in GatewayEnvs
    /\ \/ \E s \in Seeds(env) :
            /\ table = s.table
            /\ nonceCtr = s.nonceCtr
            /\ verifyOk = s.verifyOk
            /\ loginOk = {}
            /\ issued = {}
       \/ \E u \in UserIds :
            /\ table = AfterLogin(env, u).table
            /\ nonceCtr = AfterLogin(env, u).nonceCtr
            /\ verifyOk = AfterLogin(env, u).verifyOk
            /\ loginOk = AfterLogin(env, u).loginOk
            /\ issued = AfterLogin(env, u).issued
    /\ now = 0
    /\ started = 0
    /\ pc = [p \in Procs |-> "idle"]
    /\ loc = [p \in Procs |-> Loc0]
    /\ resp = Resp0
    /\ refreshed = {}
    /\ loggedOut = {}
    /\ decided = << >>
    /\ pubKey = ""
    /\ fetched = 0

\* The requests of one caller through the gateway, one at a time: for a
\* method with the authorizer the authorizer runs on the bearer token, and
\* the integration after it
NextGateway ==
    \/ Tick
    \/ \E T \in Presentable, key \in SdkStatus \cup {200} :
            Authorizer(1, T, key)
    \/ \E rid \in env.requestIds, w \in env.walletIds :
            Invokes("getUser") /\ GetUser(1, rid, w)
    \/ \E rid \in env.requestIds : Invokes("read") /\ Read(1, rid)
    \/ \E rid \in env.requestIds, w \in env.walletIds, sig \in Signatures :
            Invokes("write") /\ Write(1, rid, w, sig)
    \/ \E rid \in env.requestIds, w \in env.walletIds, lg \in {"true", "false"} :
            Invokes("getNonce") /\ GetNonce(1, rid, w, lg)
    \/ \E rid \in env.requestIds, w \in env.walletIds, v \in BOOLEAN,
          sig \in Signatures \cup {EmptySig} :
            Invokes("createUser") /\ CuStart(1, rid, w, v, sig)
    \/ CuNonce(1)
    \/ CuId(1)
    \/ CuPut(1)
    \/ \E rid \in env.requestIds, w \in env.walletIds, sig \in Signatures :
            Invokes("login") /\ LoginStart(1, rid, w, sig)
    \/ LoginGetId(1)
    \/ LoginUpdate(1)
    \/ \E rid \in env.requestIds, c \in Cookies, signer \in SdkStatus \cup {200} :
            Invokes("refresh") /\ Refresh(1, rid, c, 200, signer)
    \/ \E rid \in env.requestIds, c \in Cookies :
            Invokes("logout") /\ Logout(1, rid, c, 200)

SpecGateway == InitGateway /\ [][NextGateway]_vars

\* ------------------------------------------- two records of one wallet
\* The table after two create-user requests of one wallet have raced (both
\* passed the existence check before either put), and after a verification
\* whose put came back after the record had expired and been created anew
DupSeeds ==
    { [u \in UserIds |->
        [UserId |-> u, WalletId |-> "0xa", Verified |-> FALSE,
         Nonce |-> createNonce(IF u = "U1" THEN 1 ELSE 2), CreatedTime |-> 0,
         LastLogin |-> 0, ExpiryTime |-> UnverifiedDays]],
      [u \in UserIds |->
        [UserId |-> u, WalletId |-> "0xa", Verified |-> (u = "U1"),
         Nonce |-> createNonce(IF u = "U1" THEN 2 ELSE 1), CreatedTime |-> 0,
         LastLogin |-> 0,
         ExpiryTime |-> IF u = "U1" THEN userExpiry ELSE UnverifiedDays]] }

DupEnvs ==
    { [LOGIN_PREFIX |-> <<"L">>, SIGN_PREFIX |-> <<"S">>, walletIds |-> {"0xa"},
       requestIds |-> {"r1"}, maxTime |-> MaxTime, requests |-> MaxRequests,
       secret |-> "skip", store |-> {}] }

InitDup ==
    /\ env \in DupEnvs
    /\ table \in DupSeeds
    /\ nonceCtr = 2
    /\ now = 0
    /\ started = 0
    /\ pc = [p \in Procs |-> "idle"]
    /\ loc = [p \in Procs |-> Loc0]
    /\ resp = Resp0
    /\ loginOk = {}
    /\ verifyOk = {}
    /\ issued = {}
    /\ refreshed = {}
    /\ loggedOut = {}
    /\ decided = << >>
    /\ pubKey = ""
    /\ fetched = 0

\* One request at a time for the wallet, while the TTL removes its records
NextDup ==
    \/ Tick
    \/ \E u \in UserIds : Expire(u)
    \/ \E rid \in env.requestIds, w \in env.walletIds,
          lg \in {"true", "false"} : GetNonce(1, rid, w, lg)
    \/ \E rid \in env.requestIds, w \in env.walletIds : GetUser(1, rid, w)
    \/ \E rid \in env.requestIds, w \in env.walletIds,
          sig \in Signatures \cup {EmptySig} : LoginStart(1, rid, w, sig)
    \/ LoginGetId(1)
    \/ LoginUpdate(1)
    \/ \E rid \in env.requestIds, w \in env.walletIds,
          v \in BOOLEAN, sig \in Signatures \cup {EmptySig} :
            CuStart(1, rid, w, v, sig)
    \/ CuNonce(1)
    \/ CuId(1)
    \/ CuPut(1)
    \/ \E rid \in env.requestIds, w \in env.walletIds,
          sig \in Signatures \cup {EmptySig} : Write(1, rid, w, sig)

SpecDup == InitDup /\ [][NextDup]_vars

\* ------------------------------------------------------- records that expire
ExpiryEnvs ==
    { [LOGIN_PREFIX |-> <<"L">>, SIGN_PREFIX |-> <<"S">>, walletIds |-> {"0xa"},
       requestIds |-> {"r1"}, maxTime |-> userExpiry, requests |-> MaxRequests,
       secret |-> "skip", store |-> {}] }

InitExpiry ==
    /\ env \in ExpiryEnvs
    /\ \E s \in Seeds(env) :
        /\ table = s.table
        /\ nonceCtr = s.nonceCtr
        /\ verifyOk = s.verifyOk
    /\ now = 0
    /\ started = 0
    /\ pc = [p \in Procs |-> "idle"]
    /\ loc = [p \in Procs |-> Loc0]
    /\ resp = Resp0
    /\ loginOk = {}
    /\ issued = {}
    /\ refreshed = {}
    /\ loggedOut = {}
    /\ decided = << >>
    /\ pubKey = ""
    /\ fetched = 0

\* One request at a time for the wallet, over the lifetime of a record
NextExpiry ==
    \/ Tick
    \/ \E u \in UserIds : Expire(u)
    \/ \E rid \in env.requestIds, w \in env.walletIds,
          lg \in {"true", "false"} : GetNonce(1, rid, w, lg)
    \/ \E rid \in env.requestIds, w \in env.walletIds,
          sig \in Signatures \cup {EmptySig} : LoginStart(1, rid, w, sig)
    \/ LoginGetId(1)
    \/ LoginUpdate(1)
    \/ \E rid \in env.requestIds, w \in env.walletIds,
          v \in BOOLEAN, sig \in Signatures \cup {EmptySig} :
            CuStart(1, rid, w, v, sig)
    \/ CuNonce(1)
    \/ CuId(1)
    \/ CuPut(1)

\* The store's TTL process gets to every item that stays expired
SpecExpiry ==
    /\ InitExpiry /\ [][NextExpiry]_vars
    /\ \A u \in UserIds : WF_vars(Expire(u))

\* ----------------------------------------------------- address validation
\* The deployments of the create-user runs: the secret as the stack creates
\* it, with a project id, or absent; the callers also send an id that is no
\* address
AddressEnvs ==
    { [LOGIN_PREFIX |-> <<"L">>, SIGN_PREFIX |-> <<"S">>,
       walletIds |-> {"0xa", IllFormed}, requestIds |-> {"r1"},
       maxTime |-> MaxTime, requests |-> MaxRequests, secret |-> x,
       store |-> {}] :
      x \in {"skip", "infura", "absent"} }

InitAddress ==
    /\ env \in AddressEnvs
    /\ \E s \in Seeds(env) :
        /\ table = s.table
        /\ nonceCtr = s.nonceCtr
        /\ verifyOk = s.verifyOk
    /\ now = 0
    /\ started = 0
    /\ pc = [p \in Procs |-> "idle"]
    /\ loc = [p \in Procs |-> Loc0]
    /\ resp = Resp0
    /\ loginOk = {}
    /\ issued = {}
    /\ refreshed = {}
    /\ loggedOut = {}
    /\ decided = << >>
    /\ pubKey = ""
    /\ fetched = 0

\* create-user requests, one at a time
NextAddress ==
    \/ Tick
    \/ \E u \in UserIds : Expire(u)
    \/ \E rid \in env.requestIds, w \in env.walletIds,
          v \in BOOLEAN, sig \in Signatures \cup {EmptySig} :
            CuStart(1, rid, w, v, sig)
    \/ CuNonce(1)
    \/ CuId(1)
    \/ CuPut(1)

SpecAddress == InitAddress /\ [][NextAddress]_vars

\* ------------------------------------------------------ authorizer runs
\* The deployment of the authorizer runs: one request more than elsewhere,
\* followed until the refresh token of a login at time 0 expires
AuthorizerEnvs ==
    { [LOGIN_PREFIX |-> <<"L">>, SIGN_PREFIX |-> <<"S">>, walletIds |-> {"0xa"},
       requestIds |-> {"r1"}, maxTime |-> refreshTime,
       requests |-> MaxRequests + 1, secret |-> "skip",
       store |-> {}] }

\* after a login at time 0
InitAuthorizer ==
    /\ env \in AuthorizerEnvs
    /\ \E u \in UserIds :
        /\ table = AfterLogin(env, u).table
        /\ nonceCtr = AfterLogin(env, u).nonceCtr
        /\ verifyOk = AfterLogin(env, u).verifyOk
        /\ loginOk = AfterLogin(env, u).loginOk
        /\ issued = AfterLogin(env, u).issued
    /\ now = 0
    /\ started = 0
    /\ pc = [p \in Procs |-> "idle"]
    /\ loc = [p \in Procs |-> Loc0]
    /\ resp = Resp0
    /\ refreshed = {}
    /\ loggedOut = {}
    /\ decided = << >>
    /\ pubKey = ""
    /\ fetched = 0

\* authorizer runs on what callers bear, as time passes
NextAuthorizer ==
    \/ Tick
    \/ \E u \in UserIds : Expire(u)
    \/ \E T \in Presentable \cup {NoToken}, key \in SdkStatus \cup {200} :
            Authorizer(1, T, key)

SpecAuthorizer == InitAuthorizer /\ [][NextAuthorizer]_vars

\* ================================================================ properties
\* The keys of the items of wallet w (any spelling of w)
RecordsOf(w) == { u \in DOMAIN table : table[u].WalletId = toLowerCase(w) }
RecordsOfNext(w) == { u \in DOMAIN table' : table'[u].WalletId = toLowerCase(w) }

\* signature is the signature of wallet addr over msg
SignedBy(signature, addr, msg) == signature.signer = addr /\ signature.msg = msg

\* This step is a request of kind op that is answered at once
Answered(op) == started' = started + 1 /\ pc' = pc /\ resp'.op = op

\* This step is a request of kind op that invocation p goes on with
Accepted(p, op) ==
    started' = started + 1 /\ pc[p] = "idle" /\ pc'[p] # "idle" /\ loc'[p].op = op

\* This step is a login request for walletId w
LoginRequestFor(w) ==
    \/ Answered("login") /\ resp'.walletId = w
    \/ \E p \in Procs : Accepted(p, "login") /\ loc'[p].walletId = w

\* This step is a create-user request for walletId w with verify = v
CreateRequestFor(w, v) ==
    \/ Answered("createUser") /\ resp'.walletId = w /\ resp'.verify = v
    \/ \E p \in Procs : /\ Accepted(p, "createUser")
                        /\ loc'[p].walletId = w /\ loc'[p].verify = v

\* C1: Replay prevention.  A login for wallet W that starts after a login for
\* W returned tokens for signature S, and presents S again, does not succeed.
C1_ReplayRejected == (resp.op = "login" /\ resp.success) => ~resp.replay

\* a replayed signature was presented and rejected
C1_Witness ==
    /\ resp.op = "login" /\ resp.replay
    /\ ~resp.success /\ resp.statusCode = 401 /\ resp.err = "InvalidSignature"

\* C2: No nonce of a wallet is proven by two logins that both return tokens,
\* also when the two logins run concurrently.
C2_NonceUsedOnce == \A x \in loginOk : x.n = 1

\* C3: A login request that finds the wallet's record with Verified = false
\* ends at once with an error, whatever the signature: no tokens, nothing
\* written (the nonce is not rotated).
C3_UnverifiedNeverLogsIn ==
    [][\A w \in WalletIds :
        (/\ LoginRequestFor(w)
         /\ \E u \in RecordsOf(w) : ~table[u].Verified)
        => /\ pc' = pc
           /\ ~resp'.success /\ ~resp'.tokens
           /\ resp'.statusCode \in {401, 500}
           /\ table' = table /\ nonceCtr' = nonceCtr]_vars

\* a login with a valid signature was refused because the record is unverified
C3_Witness ==
    /\ resp.op = "login" /\ resp.err = "NotVerified" /\ resp.statusCode = 401
    /\ resp.sigClass = "login" /\ resp.walletId = toLowerCase(resp.walletId)

\* C4: The table never holds two items with the same WalletId.
C4_OneUserPerWallet ==
    \A u, v \in DOMAIN table :
        (table[u].WalletId = table[v].WalletId /\ table[u].WalletId # NoWallet)
        => u = v

C6_ExistingUserConflict ==
    [][\A w \in WalletIds :
        (CreateRequestFor(w, FALSE) /\ Cardinality(RecordsOf(w)) = 1)
        => /\ pc' = pc
           /\ ~resp'.success /\ resp'.statusCode = 400 /\ resp'.err = "Conflict"
           /\ table' = table]_vars

\* a create-user without proof was refused for an existing wallet
C6_Witness ==
    /\ resp.op = "createUser" /\ ~resp.verify /\ resp.err = "Conflict"
    /\ RecordsOf(resp.walletId) # {}

C8_VerifyUpdatesRecord ==
    [][\A p \in Procs :
        /\ (/\ pc[p] = "cu_nonce" /\ pc'[p] # "cu_nonce"
            /\ Cardinality(RecordsOf(loc[p].walletId)) = 1
            /\ \A u \in RecordsOf(loc[p].walletId) :
                    SignedBy(loc[p].signature, loc[p].walletId,
                             env.SIGN_PREFIX \o table[u].Nonce))
           => /\ pc'[p] = "cu_id"
              /\ loc'[p].expiryTime = now + userExpiry
              /\ table' = table
        /\ (/\ pc[p] = "cu_put" /\ pc'[p] = "idle" /\ loc[p].verify
            /\ Cardinality(RecordsOf(loc[p].walletId)) = 1
            /\ \A u \in RecordsOf(loc[p].walletId) : table[u].Nonce = loc[p].seen)
           => /\ resp'.success /\ resp'.op = "createUser"
              /\ RecordsOfNext(loc[p].walletId) = RecordsOf(loc[p].walletId)
              /\ \A u \in RecordsOfNext(loc[p].walletId) :
                    /\ table'[u].Verified
                    /\ table'[u].Nonce # loc[p].seen
                    /\ table'[u].Nonce # table[u].Nonce
                    /\ table'[u].ExpiryTime \in {t + userExpiry : t \in 0..now}
                    /\ table'[u].UserId = table[u].UserId
                    /\ resp'.userId = u]_vars

\* a verification succeeded on a record that was unverified
C8_Witness ==
    /\ resp.op = "createUser" /\ resp.verify /\ resp.success
    /\ SignedBy(resp.signature, resp.walletId, env.SIGN_PREFIX \o resp.seen)
    /\ \E u \in RecordsOf(resp.walletId) :
            /\ table[u].Verified /\ table[u].Nonce # resp.seen
            /\ resp.nonce = env.SIGN_PREFIX \o table[u].Nonce

\* C9: get-nonce fails with NotFound (400) for a wallet without record; for a
\* wallet with its record it returns prefix+stored nonce, the prefix being the
\* login prefix exactly when login = 'true'; it writes nothing.
C9_GetNonce ==
    [][Answered("getNonce") =>
        /\ table' = table
        /\ RecordsOf(resp'.walletId) = {} =>
                /\ ~resp'.success /\ resp'.statusCode = 400
                /\ resp'.err = "NotFound"
        /\ \A u \in RecordsOf(resp'.walletId) :
                Cardinality(RecordsOf(resp'.walletId)) = 1 =>
                    /\ resp'.success
                    /\ resp'.nonce =
                        (IF resp'.login = "true" THEN env.LOGIN_PREFIX
                                                 ELSE env.SIGN_PREFIX)
                            \o table[u].Nonce]_vars

\* get-nonce answered a login request with the login message
C9_Witness ==
    /\ resp.op = "getNonce" /\ resp.success /\ resp.login = "true"
    /\ env.LOGIN_PREFIX # env.SIGN_PREFIX
    /\ resp.nonce = env.LOGIN_PREFIX \o resp.seen

\* C10: Purpose separation.  With distinct prefixes, login accepts no
\* signature over a sign message (signPrefix+nonce), and create-user with
\* verify = true and the signed write accept no signature over a login message.
C10_PurposeSeparation ==
    (env.LOGIN_PREFIX # env.SIGN_PREFIX /\ resp.success) =>
        \A k \in 0..MaxNonce :
            /\ resp.op = "login" =>
                    resp.signature.msg # env.SIGN_PREFIX \o createNonce(k)
            /\ (resp.op = "write" \/ (resp.op = "createUser" /\ resp.verify)) =>
                    resp.signature.msg # env.LOGIN_PREFIX \o createNonce(k)

\* login refused the wallet's own signature over the sign message of the
\* stored nonce
C10_Witness ==
    /\ env.LOGIN_PREFIX # env.SIGN_PREFIX
    /\ resp.op = "login" /\ ~resp.success /\ resp.err = "InvalidSignature"
    /\ resp.sigClass = "sign" /\ resp.walletId = toLowerCase(resp.walletId)

\* ------------------------------------------------------------------- C11
\* The token given to this step's request is the access (refresh = FALSE) or
\* refresh (refresh = TRUE) token the service created for userId at some
\* time, it is not expired, and the public key was at hand
GivenFresh(userId, refresh) ==
    /\ resp'.given.value \in issued
    /\ \E t \in 0..env.maxTime :
          resp'.given.value = createJwt(userId, FALSE, refresh, t)
    /\ now < resp'.given.value.payload.exp
    /\ resp'.err # "KeyError"

\* C11: an unexpired access token created for u verifies as an access token
\* with subject u and admin false (the authorizer allows u, not admin); an
\* unexpired refresh token created for u verifies as a refresh token with
\* subject u (refresh and logout accept it for u, unless the signer fails);
\* an access token given where a refresh token is required, and a refresh
\* token given where an access token is required, fail with the error of
\* the wrong token kind.
C11_TokenRoundTrip ==
    [][\A u \in UserIds :
        /\ (Answered("authorizer") /\ GivenFresh(u, FALSE))
            => /\ resp'.effect = "Allow" /\ resp'.principalId = u
               /\ ~resp'.isAdmin /\ resp'.err = ""
        /\ (Answered("authorizer") /\ GivenFresh(u, TRUE))
            => resp'.effect = "Deny" /\ resp'.err = "InvalidAuthToken"
        /\ ((Answered("refresh") \/ Answered("logout")) /\ GivenFresh(u, TRUE))
            => \/ resp'.success /\ resp'.userId = u
               \/ resp'.err = "SignerError"
        /\ ((Answered("refresh") \/ Answered("logout")) /\ GivenFresh(u, FALSE))
            => /\ ~resp'.success /\ resp'.err = "InvalidRefreshToken"
               /\ resp'.statusCode = 401]_vars

\* a refresh token was accepted by refresh, and then the authorizer refused
\* an unexpired refresh token of the service as being of the wrong kind
C11_Witness ==
    /\ refreshed # {}
    /\ resp.op = "authorizer" /\ resp.err = "InvalidAuthToken"
    /\ resp.given.value \in issued
    /\ now < resp.given.value.payload.exp

\* ------------------------------------------------------------------- C12
\* T is an access token the service signed that is not expired now
ValidAccess(T) ==
    T \in issued /\ ~T.payload.refresh /\ now < T.payload.exp

\* C12: the authorizer always returns a policy.  It is Allow with the token's
\* subject as principalId and the token's admin claim as isAdmin when the
\* bearer token is an unexpired access token of the service and the public
\* key is at hand; for every other token (expired, not a JWT, signature not
\* matching, refresh kind, none) and when the key cannot be fetched it is
\* Deny with principalId 'Unknown' and isAdmin false.
C12_AuthorizerDecision ==
    [][Answered("authorizer") =>
        LET T == resp'.given.value IN
        /\ resp'.success
        /\ IF ValidAccess(T) /\ resp'.err # "KeyError"
           THEN /\ resp'.effect = "Allow"
                /\ resp'.principalId = T.payload.sub
                /\ resp'.isAdmin = T.payload.admin
           ELSE /\ resp'.effect = "Deny"
                /\ resp'.principalId = "Unknown"
                /\ ~resp'.isAdmin]_vars

\* the authorizer denied an access token of the service that has expired
C12_Witness ==
    /\ resp.op = "authorizer" /\ resp.effect = "Deny"
    /\ resp.given.value \in issued /\ ~resp.given.value.payload.refresh
    /\ resp.err = "TokenExpired"

\* ------------------------------------------------------------------- C13
\* C13 as claimed: of two refreshes that were given the same refresh token,
\* the later one returns tokens with a strictly later exp.
C13_SecondExpStrictlyLater ==
    \A x \in refreshed, y \in refreshed :
        (x.given = y.given /\ x.n < y.n) => x.exp < y.exp

\* C13 as amended: a refresh that is given an unexpired refresh token which
\* an earlier refresh was given already succeeds too (unless KMS fails), and
\* the exp of the refresh token it returns is not earlier than the exp the
\* earlier refresh returned: later when the clock has advanced between the
\* two calls, equal when it has not.
C13_RefreshTwice ==
    [][(/\ Answered("refresh")
        /\ \E x \in refreshed : x.given = resp'.given.value
        /\ now < resp'.given.value.payload.exp)
       => \/ resp'.err \in {"KeyError", "SignerError"}
          \/ /\ resp'.success /\ resp'.tokens
             /\ \A x \in refreshed :
                    x.given = resp'.given.value =>
                        LET exp == resp'.cookie.value.payload.exp IN
                        /\ x.exp <= exp
                        /\ (x.at < now) => (x.exp < exp)
                        /\ (x.at = now) => (x.exp = exp)]_vars

\* the refresh token of the login was refreshed twice, at different times
C13_Witness ==
    \E x \in refreshed, y \in refreshed :
        /\ x.given = y.given /\ x.n = 1 /\ y.n = 2 /\ x.at < y.at
        /\ x.given = createRefreshToken(x.given.payload.sub, 0)

\* ------------------------------------------------------------------- C14
\* This step answers a refresh or a logout that was given a token which a
\* refresh has exchanged for new tokens before
ReusesRefreshed ==
    /\ Answered("refresh") \/ Answered("logout")
    /\ \E x \in refreshed : x.given = resp'.given.value

\* C14 as claimed: a refresh token that refresh has exchanged for a new one
\* is rejected when it is presented again.
C14_RotatedTokenRejected ==
    [][ReusesRefreshed => ~resp'.success]_vars

\* C14 as amended: a refresh token that refresh has exchanged for a new one
\* is rejected by a later refresh or logout from its own exp on, with
\* TokenExpired and status 401, and not because it was exchanged.
C14_RotatedTokenExpires ==
    [][ReusesRefreshed =>
        IF now >= resp'.given.value.payload.exp
        THEN /\ ~resp'.success /\ ~resp'.tokens
             /\ resp'.err \in {"TokenExpired", "KeyError"}
             /\ resp'.err = "TokenExpired" => resp'.statusCode = 401
        ELSE ~resp'.success =>
                resp'.err \in {"KeyError", "SignerError"}]_vars

\* a refresh token that had been exchanged was rejected as expired
C14_Witness ==
    /\ resp.op \in {"refresh", "logout"} /\ resp.err = "TokenExpired"
    /\ \E x \in refreshed : x.given = resp.given.value

\* ------------------------------------------------------------------- C15
\* The cookie c holds a refresh token the service signed that is not expired
ValidRefreshCookie(c) ==
    /\ c.name = "token"
    /\ c.value \in issued /\ c.value.payload.refresh
    /\ now < c.value.payload.exp

\* C15: logout writes nothing to the user store.  When the public key is at
\* hand it succeeds exactly when the cookie holds an unexpired refresh token
\* of the service, and then returns the subject and a cookie with max-age 0
\* whose token entry is no JWT; with no cookie, no token entry, a string that
\* is no JWT, a changed, an expired or an access token it fails with 401 and
\* returns no cookie.  No failing logout returns a cookie.
C15_Logout ==
    [][Answered("logout") =>
        /\ table' = table /\ issued' = issued
        /\ resp'.success => ValidRefreshCookie(resp'.given)
        /\ ~resp'.success => resp'.cookie = NoCookie /\ ~resp'.tokens
        /\ resp'.err # "KeyError" =>
            IF ValidRefreshCookie(resp'.given)
            THEN /\ resp'.success
                 /\ resp'.userId = resp'.given.value.payload.sub
                 /\ resp'.cookie.name = "token"
                 /\ resp'.cookie.maxAge = 0
                 /\ resp'.cookie.value.text # "jwt"
                 /\ resp'.authToken = NoToken
            ELSE ~resp'.success /\ resp'.statusCode = 401]_vars

\* a logout with the refresh cookie of a login succeeded
C15_Witness ==
    /\ resp.op = "logout" /\ resp.success
    /\ resp.given.value \in issued
    /\ resp.cookie.maxAge = 0

\* ------------------------------------------------------------------- C16
\* C16: a refresh token that a successful logout was given is accepted again
\* by every refresh or logout before its own exp (unless KMS fails): the
\* logout left nothing behind that a later validation reads.
C16_NoRevocation ==
    [][(/\ Answered("refresh") \/ Answered("logout")
        /\ resp'.given.value \in loggedOut
        /\ now < resp'.given.value.payload.exp)
       => \/ resp'.err \in {"KeyError", "SignerError"}
          \/ /\ resp'.success
             /\ resp'.userId = resp'.given.value.payload.sub
             /\ Answered("refresh") => resp'.tokens]_vars

\* a refresh was given a token that had been logged out, and returned tokens
C16_Witness ==
    /\ resp.op = "refresh" /\ resp.success /\ resp.tokens
    /\ resp.given.value \in loggedOut

\* ------------------------------------------------------------------- C17
\* C17: in the flow create-user, get-nonce (sign), create-user with verify
\* and the wallet's signature over the returned message, get-nonce (login),
\* login with the wallet's signature over that message, the login has
\* succeeded with a JWT as authToken and a refresh cookie holding a JWT, and
\* the authorizer allows the authToken with the userId of the wallet's
\* record as principalId; this when the record has not expired during the
\* flow, the authToken has not expired yet, and KMS has answered.
C17_EndToEnd ==
    [][\A w \in env.walletIds :
        (/\ Answered("authorizer")
         /\ started = Len(Flow) - 1
         /\ RecordsOf(w) # {}
         /\ resp'.err # "KeyError"
         /\ resp.authToken.text = "jwt" => now < resp.authToken.payload.exp)
        => /\ resp.op = "login" /\ resp.success /\ resp.walletId = w
           /\ resp.authToken.text = "jwt"
           /\ resp.cookie.name = "token" /\ resp.cookie.value.text = "jwt"
           /\ resp'.given.value = resp.authToken
           /\ resp'.effect = "Allow"
           /\ \A u \in RecordsOf(w) : resp'.principalId = table[u].UserId]_vars

\* the flow has ended with the authorizer allowing the wallet's user
C17_Witness ==
    /\ started = Len(Flow)
    /\ resp.op = "authorizer" /\ resp.effect = "Allow"
    /\ \E u \in DOMAIN table :
        table[u].WalletId = "0xa" /\ table[u].UserId = resp.principalId

\* ------------------------------------------------------------------- C18
SessionOps == {"login", "refresh", "logout"}

\* C18: a failure of login, refresh or logout is never reported with status
\* 400: an error whose status is 400 is reported as 401, and every reported
\* status is 401, 403 or 500.
C18_Never400 ==
    (resp.op \in SessionOps /\ ~resp.success)
    => /\ resp.statusCode # 400
       /\ Reported(resp.statusCode) \in {401, 403, 500}
       /\ resp.caught = 400 => Reported(resp.statusCode) = 401

\* a refresh with an expired token, a login with a wrong signature, or a
\* logout without our cookie has been refused: errors of status 400
C18_Witness ==
    /\ resp.op \in SessionOps /\ ~resp.success
    /\ resp.caught = 400 /\ resp.statusCode = 401
    /\ resp.err = "TokenExpired"

\* ------------------------------------------------------------------- C19
\* The errors that are not the service's own refusals: failures of KMS
Unexpected == {"SignerError", "KeyError"}

\* C19: a failing use case answers with success = false and the requestId of
\* its request; a failure of the signer or of the key service is reported
\* with status 500 and the generic message, never with the text of the error.
C19_UnexpectedIs500 ==
    (resp.op \in SessionOps \cup {"getUser"} /\ ~resp.success)
    => /\ resp.requestId \in env.requestIds
       /\ resp.err \in Unexpected
            => /\ Reported(resp.statusCode) = 500
               /\ errorMessage(resp.statusCode, resp.err) = GenericMessage

\* ------------------------------------------------------------------- C20
UseCases == {"createUser", "getNonce", "getUser", "login", "refresh", "logout",
             "write", "read"}

\* C20: the response of a use case that succeeded has success = true and
\* carries the requestId of the context of its request.
C20_SuccessCarriesRequestId ==
    (resp.op \in UseCases /\ resp.statusCode = 200)
    => resp.success /\ resp.requestId \in env.requestIds

\* ------------------------------------------------------------------- C21
\* The response before this step is a login whose token signing failed
AfterFailedSigning == resp.op = "login" /\ resp.err = "SignerError"

\* C21: the update of a login writes the new nonce whatever the signing of
\* the tokens does after it.  A login whose signing fails returns an error
\* and no token, and leaves the record (when the TTL has not removed it)
\* Verified with a nonce other than the proven one.  The login that follows
\* with the wallet's signature over the login message of the new nonce
\* passes the checks and returns tokens when KMS signs.  (The wallet id is
\* given as recovery spells it, in lower case.)
C21_RotationBeforeTokens ==
    [][/\ (pc[1] = "login_update" /\ pc'[1] = "idle")
          => LET l == loc[1] IN
             /\ l.updId \in DOMAIN table
                  => /\ table'[l.updId].Nonce = l.nonce
                     /\ l.nonce # l.seen
                     /\ table'[l.updId].Verified = table[l.updId].Verified
             /\ ~resp'.success
                  => /\ resp'.err = "SignerError"
                     /\ ~resp'.tokens
                     /\ resp'.authToken = NoToken /\ resp'.cookie = NoCookie
                     /\ issued' = issued
                     /\ l.updId \in DOMAIN table => table'[l.updId].Verified
             /\ (AfterFailedSigning /\ resp'.err # "SignerError")
                  => /\ resp'.success /\ resp'.tokens
                     /\ resp'.authToken.text = "jwt"
                     /\ l.seen # resp.seen
       /\ \A w \in Addrs :
            (/\ AfterFailedSigning
             /\ Answered("login") /\ resp'.walletId = w
             /\ \E u \in RecordsOf(w) : table[u].Verified)
            => resp'.sigClass # "login"]_vars

\* a login has returned tokens right after a login whose signing failed
C21_Witness ==
    /\ resp.op = "login" /\ resp.success /\ resp.tokens /\ resp.retry
    /\ \E u \in RecordsOf(resp.walletId) :
            table[u].Verified /\ table[u].Nonce # resp.seen

\* ------------------------------------------------------------------- C22
\* C22: the signature of wallet W over the expected message verifies for
\* every spelling of W's address: a login or a create-user with verify that
\* presents it, under whatever spelling, is not refused as an invalid
\* signature.
C22_AnySpellingVerifies ==
    /\ (resp.op = "login" /\ resp.sigClass = "login")
        => resp.err # "InvalidSignature"
    /\ (resp.op = "createUser" /\ resp.verify /\ resp.sigClass = "sign")
        => resp.err # "InvalidSignature"

\* ------------------------------------------------------------------- C23
\* C23: a login that presents something other than the wallet's signature
\* over the login message of the stored nonce of its verified record is
\* refused with status 401 as an invalid signature, never with 500 or 400.
C23_MismatchIs401 ==
    (/\ resp.op = "login"
     /\ resp.sigClass \in {"other", "stale", "sign"}
     /\ resp.err # "NotVerified")
    => /\ ~resp.success
       /\ resp.err = "InvalidSignature"
       /\ resp.statusCode = 401

\* ------------------------------------------------------------------- C24
\* C24: when the secret of the address validation is absent, or its project
\* id is 'SKIP_VALIDATION', create-user fails neither on the secret nor on
\* the walletId: every walletId passes the address check.
C24_DegradedValidationPasses ==
    (resp.op = "createUser" /\ env.secret \in {"absent", "skip"})
    => resp.err \notin {"SecretError", "InvalidWalletId"}

\* ------------------------------------------------------------------- C25
\* This step returns the response of a request that succeeded on a proof: a
\* login, a create-user with verify, or a signed write
ProofSucceeds ==
    /\ resp'.success
    /\ \/ Answered("write")
       \/ pc[1] = "login_update" /\ pc'[1] = "idle"
       \/ pc[1] = "cu_put" /\ pc'[1] = "idle" /\ resp'.verify

\* C25: when a request has succeeded on a signature over the stored nonce,
\* the nonce stored for the wallet is no longer the proven one.
C25_NonceSingleUse ==
    [][ProofSucceeds
        => \A u \in RecordsOfNext(resp'.walletId) :
                table'[u].Nonce # resp'.seen]_vars

\* ------------------------------------------------------------------- C26
\* C26: the put of a create-user for a new wallet fails and leaves the table
\* as it is when the generated userId is the key of a record, or when the
\* wallet has got a record since the existence check.
C26_NoSilentOverwrite ==
    [][\A p \in Procs :
        (/\ pc[p] = "cu_put" /\ pc'[p] = "idle" /\ ~loc[p].verify
         /\ \/ loc[p].userId \in DOMAIN table
            \/ RecordsOf(loc[p].walletId) # {})
        => table' = table /\ ~resp'.success]_vars

\* ------------------------------------------------------------------- C27
\* This step removes exactly the item u, which is past its expiry
ExpiredAway(u) ==
    /\ table[u].ExpiryTime # NoTime /\ table[u].ExpiryTime <= now
    /\ table' = [v \in DOMAIN table \ {u} |-> table[v]]

\* C27: a record that is Verified stays the Verified record of its wallet in
\* every step; it ends only when the store removes it on its expiry.
C27_VerifiedIsTerminal ==
    [][\A u \in DOMAIN table :
        table[u].Verified
        => IF u \in DOMAIN table'
           THEN /\ table'[u].Verified
                /\ table'[u].WalletId = table[u].WalletId
           ELSE ExpiredAway(u)]_vars

InvalidTokenKind ==
    {"MissingCookie", "NotOurCookie", "InvalidToken", "InvalidRefreshToken"}

\* the token of the cookie is a JWT with the service's signature
Signed(c) == c.value.text = "jwt" /\ c.value.signature = signMsg(c.value.payload)

\* a refresh was answered while the public key was at hand
RefreshAnswered == Answered("refresh") /\ resp'.err # "KeyError"

\* a failing call issues nothing
NothingIssued ==
    ~resp'.success =>
        /\ ~resp'.tokens
        /\ resp'.authToken = NoToken
        /\ resp'.cookie = NoCookie
        /\ issued' = issued

\* C29 as stated: a refresh fails with InvalidToken when the cookie is absent,
\* has no token entry, holds a malformed or wrongly signed token, or holds an
\* access-kind token; it fails with TokenExpired when the refresh token's exp
\* is in the past; a failing call issues no tokens.
C29_RefreshFailures ==
    [][RefreshAnswered =>
        LET c == resp'.given IN
        /\ (\/ c = NoCookie
            \/ c.name # "token"
            \/ ~Signed(c)
            \/ ~c.value.payload.refresh)
           => ~resp'.success /\ resp'.err \in InvalidTokenKind
        /\ (c.name = "token" /\ Signed(c) /\ c.value.payload.refresh
              /\ now >= c.value.payload.exp)
           => ~resp'.success /\ resp'.err = "TokenExpired"
        /\ NothingIssued]_vars

\* C29 amended: a refresh fails with InvalidToken when the cookie is absent,
\* has no token entry, holds a malformed or wrongly signed token, or holds an
\* unexpired access-kind token; it fails with TokenExpired when the token, of
\* either kind, carries the service's signature and its exp is not in the
\* future; a failing call issues no tokens.
C29_RefreshFailuresByOrder ==
    [][RefreshAnswered =>
        LET c == resp'.given IN
        /\ (\/ c = NoCookie
            \/ c.name # "token"
            \/ ~Signed(c)
            \/ (~c.value.payload.refresh /\ now < c.value.payload.exp))
           => ~resp'.success /\ resp'.err \in InvalidTokenKind
        /\ (c.name = "token" /\ Signed(c) /\ now >= c.value.payload.exp)
           => ~resp'.success /\ resp'.err = "TokenExpired"
        /\ NothingIssued]_vars

\* C29 witness: a refresh with an expired access token in the cookie was
\* answered TokenExpired, and nothing was issued
C29_Witness ==
    /\ resp.op = "refresh"
    /\ ~resp.success
    /\ resp.err = "TokenExpired"
    /\ resp.given.name = "token"
    /\ Signed(resp.given)
    /\ ~resp.given.value.payload.refresh
    /\ ~resp.tokens

\* ------------------------------------------------------------------- C30
\* invocation p's login ends in this step
LoginEnds(p) == pc[p] \in {"login_getid", "login_update"} /\ pc'[p] = "idle"

\* A login whose rotation failed returns an error and no token, and a login
\* that returns tokens has replaced the nonce it proved
RotatedOrNoTokens(p) ==
    /\ resp'.err = "StoreError"
        => /\ ~resp'.success
           /\ ~resp'.tokens
           /\ resp'.authToken = NoToken /\ resp'.cookie = NoCookie
           /\ issued' = issued
    /\ resp'.success
        => /\ resp'.tokens
           /\ loc[p].updId \in DOMAIN table'
           /\ table'[loc[p].updId].Nonce # loc[p].seen

\* C30: a login whose nonce rotation fails, in the read or in the update of
\* the store, aborts with an internal error (status 500) and issues no access
\* token and no refresh cookie; a login that returns tokens has replaced the
\* nonce it proved.
C30_FailedRotationIsInternalError ==
    [][\A p \in Procs :
        LoginEnds(p)
        => /\ RotatedOrNoTokens(p)
           /\ resp'.err = "StoreError"
                => Reported(resp'.statusCode) = 500]_vars

\* ------------------------------------------------------------------- C31
\* a call of kms.getPublicKey is pending
Fetching == \E q \in Procs : pc[q] = "vj_fetch"

\* The key is fetched only into an empty cache, a verification that finds the
\* key cached fetches nothing and keeps it, and a failed fetch leaves the
\* cache as it was
CacheFilledOnce ==
    /\ fetched' > fetched => pubKey = ""
    /\ pubKey # "" => pubKey' = pubKey
    /\ (resp' # resp /\ resp'.err = "KeyError") => pubKey' = pubKey

\* C31: within one process the public key is fetched at most once for any
\* number of verifications: kms.getPublicKey is called only while the cache
\* is empty and no other call of it is pending (single flight), later
\* verifications use the cached key, and a failed fetch leaves the cache
\* empty.
C31_SingleFlight ==
    [][/\ CacheFilledOnce
       /\ fetched' > fetched => ~Fetching]_vars

\* ------------------------------------------------------------------- C32
\* the handler of method op returns its response in this step
Handled(op) == resp' # resp /\ resp'.op = op

\* C32: the handlers of get-user, test read and test write return a response
\* only in a step that follows an Allow of the authorizer for the request;
\* after a Deny none of them runs; and the methods without the authorizer
\* are exactly get-nonce, create-user, login, refresh-token and logout.
C32_ProtectedAfterAllow ==
    [][/\ \A op \in {"getUser", "read", "write"} :
            Handled(op) => resp.op = "authorizer" /\ resp.effect = "Allow"
       /\ (resp.op = "authorizer" /\ resp.effect = "Deny")
            => \A op \in {"getUser", "read", "write"} : ~Handled(op)
       /\ Methods \ MethodsWithAuthorizer =
            {"getNonce", "createUser", "login", "refresh", "logout"}]_vars

\* C32 witness: test read has answered a request whose token the authorizer
\* allowed
C32_Witness ==
    /\ resp.op = "read" /\ resp.success
    /\ decided # << >>
    /\ decided[Len(decided)].effect = "Allow"

\* ------------------------------------------------------------------- C33
\* the requests that look the wallet up
LookupOps == {"getNonce", "getUser", "login", "createUser", "write"}

\* the refusals of a request for what it lacks, made before any lookup
BeforeLookup == {"MissingSignature", "SignatureRequired"}

\* C33: while two or more records of the wallet are stored, a get-nonce,
\* get-user, login, create-user or signed write for it that reaches its
\* lookup is answered at once with an error of status 500 (reported as 500):
\* it does not succeed, continues with none of the records, and leaves the
\* table as it is.
C33_TwoRecordsIs500 ==
    [][\A w \in env.walletIds :
        (started' = started + 1 /\ Cardinality(RecordsOf(w)) > 1)
        => /\ resp'.op \in LookupOps /\ resp'.walletId = w
           /\ ~resp'.success
           /\ pc' = pc /\ loc' = loc
           /\ table' = table
           /\ resp'.userId = "" /\ resp'.nonce = <<>>
           /\ resp'.err \notin BeforeLookup
                => /\ resp'.err = "MoreThanOneUser"
                   /\ resp'.statusCode = 500
                   /\ Reported(resp'.statusCode) = 500]_vars

\* C33 witness: a create-user with verify and a signature was answered 500
\* while the wallet has two records
C33_Witness ==
    /\ resp.op = "createUser" /\ resp.verify /\ resp.err = "MoreThanOneUser"
    /\ resp.statusCode = 500
    /\ Cardinality(RecordsOf(resp.walletId)) > 1

\* ------------------------------------------------------------------- C34
\* createUser draws the expiry of the record it is about to write
DrawsExpiry(p) ==
    loc'[p].expiryTime # NoTime /\ loc'[p].expiryTime # loc[p].expiryTime

\* item u is stored and its expiry has passed
Expired(u) ==
    u \in DOMAIN table /\ table[u].ExpiryTime # NoTime
    /\ table[u].ExpiryTime <= now

\* C34 (writes, removal, the Unknown state): createUser draws the expiry of
\* an unverified record as the current time + 1 day and that of a verified
\* record as the current time + userExpiry days, which is later, and its put
\* writes what was drawn; the store removes only records whose expiry has
\* passed; while the wallet has no record, get-nonce and login fail with
\* NotFound (a login without signature is refused for that before) and a
\* create-user without verify is not refused.
ExpiryStep ==
    /\ \A p \in Procs :
        /\ DrawsExpiry(p)
            => /\ loc'[p].expiryTime =
                    now + (IF loc'[p].verified THEN userExpiry ELSE 1)
               /\ userExpiry > 1
        /\ (pc[p] = "cu_put" /\ pc'[p] = "idle")
            => /\ loc[p].userId \in DOMAIN table'
               /\ table'[loc[p].userId].ExpiryTime = loc[p].expiryTime
               /\ table'[loc[p].userId].Verified = loc[p].verified
               /\ resp'.success
    /\ \A u \in DOMAIN table \ DOMAIN table' : Expired(u)
    /\ \A w \in env.walletIds :
        (started' = started + 1 /\ RecordsOf(w) = {})
        => /\ resp' # resp /\ resp'.op = "getNonce"
                => ~resp'.success /\ resp'.err = "NotFound"
           /\ resp' # resp /\ resp'.op = "login"
                => /\ ~resp'.success
                   /\ resp'.err \in {"NotFound", "MissingSignature"}
           /\ (pc'[1] = "idle" /\ resp'.op = "createUser")
                => resp'.verify

LoginRefusals ==
    {"MissingSignature", "NotFound", "NotVerified", "InvalidSignature"}

\* C35: a login refused for a missing signature, an unknown wallet, an
\* unverified record or an invalid signature leaves the table as it was:
\* Nonce, LastLogin, Verified, ExpiryTime and UserId of every record are
\* those of before the call.
C35_FailedLoginChangesNothing ==
    [][(resp' # resp /\ resp'.op = "login" /\ resp'.err \in LoginRefusals)
        => /\ ~resp'.success
           /\ table' = table
           /\ nonceCtr' = nonceCtr]_vars

\* C35 witness: a login with a signature that is not the wallet's over the
\* login message was refused, and the Verified record still holds the nonce
\* the login read
C35_Witness ==
    /\ resp.op = "login" /\ ~resp.success /\ resp.err = "InvalidSignature"
    /\ resp.sigClass # "login"
    /\ \E u \in RecordsOf(resp.walletId) :
            table[u].Verified /\ table[u].Nonce = resp.seen /\ table[u].LastLogin = 0

\* ------------------------------------------------------------------- C36
\* the login of invocation p returns tokens in this step
LoginSucceeds(p) ==
    pc[p] = "login_update" /\ pc'[p] = "idle" /\ resp'.success

\* the update of the login changed Nonce and LastLogin of record u, which is
\* a record of wallet w, and nothing else in the table
OnlyNonceAndLastLogin(u, w) ==
    /\ u \in DOMAIN table
    /\ table[u].WalletId = toLowerCase(w)
    /\ DOMAIN table' = DOMAIN table
    /\ \A v \in DOMAIN table \ {u} : table'[v] = table[v]
    /\ table'[u] = [table[u] EXCEPT !.Nonce = table'[u].Nonce,
                                     !.LastLogin = table'[u].LastLogin]

\* C36: a login that returns tokens has changed only Nonce and LastLogin of
\* the record of its wallet: UserId, WalletId, Verified, CreatedTime and
\* ExpiryTime of that record are as before, and no other item is written.
C36_LoginChangesOnlyNonceAndLastLogin ==
    [][\A p \in Procs :
        LoginSucceeds(p) => OnlyNonceAndLastLogin(loc[p].updId, loc[p].walletId)]_vars

\* ------------------------------------------------------------------- C37
\* C37: no token signed by the service has admin = true, neither the access
\* token nor the token of the refresh cookie of a response of login or
\* refresh; and every token the authorizer allows is one the service issued,
\* for which it forwards isAdmin = false.
C37_NoAdminToken ==
    /\ \A T \in issued : ~T.payload.admin
    /\ ~resp.authToken.payload.admin
    /\ ~resp.cookie.value.payload.admin
    /\ (resp.op = "authorizer" /\ resp.effect = "Allow")
        => resp.given.value \in issued /\ ~resp.isAdmin
    /\ \A i \in DOMAIN decided : ~decided[i].isAdmin

\* C37 witness: the authorizer has allowed an access token that a refresh
\* issued, and forwarded isAdmin = false
C37_Witness ==
    /\ resp.op = "authorizer" /\ resp.effect = "Allow" /\ ~resp.isAdmin
    /\ refreshed # {}
    /\ resp.given.value.payload.iat > 0
    /\ resp.given.value \in issued

\* ------------------------------------------------------------------- C38
\* token T is a JWT with the service's signature that has not expired
Live(T) ==
    T.text = "jwt" /\ T.signature = signMsg(T.payload) /\ now < T.payload.exp

\* the cookie holds a live refresh token in its token entry
LiveRefreshCookie(c) ==
    c.name = "token" /\ Live(c.value) /\ c.value.payload.refresh

\* C38: refresh, logout and the authorizer leave the user table as it is, and
\* their outcome is decided by the presented token and the current time
\* alone (KMS answering): refresh and logout succeed exactly for a live
\* refresh token, the authorizer allows exactly a live access token,
\* whatever the table holds.  A refresh that succeeds returns a refresh
\* token of its subject that expires a full refreshTime after the call and
\* that a later refresh accepts.
C38_SessionIgnoresUserStore ==
    [][/\ (resp' # resp /\ resp'.op \in {"refresh", "logout", "authorizer"})
            => table' = table
       /\ (Answered("refresh") /\ resp'.err \notin {"KeyError", "SignerError"})
            => /\ resp'.success <=> LiveRefreshCookie(resp'.given)
               /\ resp'.success
                    => /\ resp'.userId = resp'.given.value.payload.sub
                       /\ resp'.cookie.value =
                            createRefreshToken(resp'.userId, now)
                       /\ resp'.cookie.value.payload.exp = now + refreshTime
                       /\ resp'.cookie.value \in issued'
                       /\ resp'.authToken \in issued'
       /\ (Answered("logout") /\ resp'.err # "KeyError")
            => (resp'.success <=> LiveRefreshCookie(resp'.given))
       /\ (Answered("authorizer") /\ resp'.err # "KeyError")
            => (resp'.effect = "Allow"
                <=> Live(resp'.given.value)
                    /\ ~resp'.given.value.payload.refresh)]_vars

\* C38 witness: a refresh has returned tokens for a subject whose record the
\* TTL has removed, on a refresh token that an earlier refresh had issued
C38_Witness ==
    /\ resp.op = "refresh" /\ resp.success /\ resp.tokens
    /\ resp.userId \notin DOMAIN table
    /\ resp.given.value.payload.iat > 0
    /\ resp.cookie.value.payload.exp > resp.given.value.payload.exp

\* ------------------------------------------------------------------- C39
\* the create-user with verify of invocation p puts its item in this step
VerifyPuts(p) == pc[p] = "cu_put" /\ pc'[p] = "idle" /\ loc[p].verify

\* C39: the put of a create-user with verify replaces the whole record of
\* the wallet, Verified or not before: UserId and the lower-case WalletId
\* are those of the record read, Verified is true, the Nonce is a new one,
\* CreatedTime and LastLogin are the time of the request and ExpiryTime is
\* userExpiry days after it, whatever the record held; no other record
\* changes.
C39_VerifyReplacesRecord ==
    [][\A p \in Procs :
        VerifyPuts(p)
        => LET l == loc[p]
               u == l.userId
           IN
           /\ resp'.success /\ resp'.userId = u
           /\ u \in DOMAIN table
                => /\ table[u].UserId = u
                   /\ table[u].WalletId = toLowerCase(l.walletId)
                   /\ table'[u].Nonce # table[u].Nonce
           /\ table'[u] =
                [UserId |-> u, WalletId |-> toLowerCase(l.walletId),
                 Verified |-> TRUE, Nonce |-> l.nonce,
                 CreatedTime |-> l.time, LastLogin |-> l.time,
                 ExpiryTime |-> l.expiryTime]
           /\ l.nonce # l.seen
           /\ l.time <= now /\ l.expiryTime <= now + userExpiry
           /\ l.expiryTime <= l.time + userExpiry
           /\ (started = 1 /\ now = 0)
                => l.time = now /\ l.expiryTime = now + userExpiry
           /\ \A v \in DOMAIN table \ {u} :
                v \in DOMAIN table' /\ table'[v] = table[v]]_vars

\* C39 witness: the record that was Verified at time 0 has been verified
\* again a day later, by the only request made: it has a CreatedTime and
\* a LastLogin of that day, a new nonce and an expiry counted from that day
C39_Witness ==
    /\ started = 1
    /\ resp.op = "createUser" /\ resp.verify /\ resp.success
    /\ Cardinality(verifyOk) = 2
    /\ resp.userId \in DOMAIN table
    /\ table[resp.userId].Verified
    /\ table[resp.userId].CreatedTime = 1
    /\ table[resp.userId].LastLogin = 1
    /\ table[resp.userId].ExpiryTime = 1 + userExpiry
    /\ table[resp.userId].Nonce # resp.seen

====
